---- MODULE Spec2Model ----
(***************************************************************************)
(* Grid server of quickleafleet: the /api/grid handler with its two-level  *)
(* memcached cache, the requestTracker throttle and the tile arithmetic    *)
(* (the caching revision of server.js), and the earlier revision of the    *)
(* handler that has the throttle but no cache (src/server.js).             *)
(*                                                                         *)
(* Coordinates.  Latitudes and longitudes are held as their Web-Mercator   *)
(* ordinates in units of 2^-WorldBits of the world: a longitude lng is the *)
(* integer (lng+180)/360 * 2^WorldBits and a latitude lat is the integer   *)
(* (1 - asinh(tan lat)/pi)/2 * 2^WorldBits, so that y grows southwards.    *)
(* In these units calculateOSMTile is a floor division and tile2LatLng a   *)
(* multiplication.                                                         *)
(***************************************************************************)
EXTENDS Integers, Sequences, FiniteSets, TLC

\* ------------------------------------------------------------------ bounds
NReq == 1            \* handler frames that may be in progress at once
MaxRequestId == 3    \* ids the throttle may issue in one run of the model
TimeStep == 1800     \* seconds that pass in one Tick of the cache clock
MaxAdmits == 9       \* calls of trackRequest in one run of the throttle by itself
MaxZoom == 19        \* the largest zoom level given to the grid policy
MaxTileZoom == 17    \* the largest zoom level given to getTileNames by itself
NRace == 2           \* handlers in progress at once in the race on a tile

\* ------------------------------------------------------- program constants
WorldBits == 19
baseDelay == 100
maxDelay == 10000
ContentTTL == 300
TileTTL == 3600
NoGridZoom == 10
DefaultZoom == 15
LegacyDefaultZoom == 1000

Slots == 1..NReq

\* --------------------------------------------------------------- utilities
RECURSIVE Pow2(_)
Pow2(n) == IF n <= 0 THEN 1 ELSE 2 * Pow2(n - 1)

Min(a, b) == IF a <= b THEN a ELSE b
Max(a, b) == IF a >= b THEN a ELSE b

Range(s) == {s[i] : i \in 1..Len(s)}

RECURSIVE Flat(_)
\* Array.prototype.flat() on an array of arrays
Flat(ss) == IF ss = <<>> THEN <<>> ELSE Head(ss) \o Flat(Tail(ss))

SetMin(S) == CHOOSE m \in S : \A n \in S : m <= n
SetMax(S) == CHOOSE m \in S : \A n \in S : m >= n

\* all orders in which the elements of S can be listed
Perms(S) == {p \in [1..Cardinality(S) -> S] : Range(p) = S}

\* ------------------------------------------------------------ tile addressing
\* width of a tile of the pyramid at integer zoom z, in world units
TileSpan(zoom) == Pow2(WorldBits - zoom)

\* calculateOSMTile(lat, lng, zoom): floor of the projected ordinate times 2^zoom
calculateOSMTile(lat, lng, zoom) ==
  [tileX |-> lng \div TileSpan(zoom), tileY |-> lat \div TileSpan(zoom)]

RECURSIVE TileRowExclusive(_, _, _, _)
\* the inner loop with its end excluded: x from x0 while x < x1
TileRowExclusive(zoom, y, x0, x1) ==
  IF x0 >= x1 THEN <<>>
  ELSE <<(<<zoom, x0, y>>)>> \o TileRowExclusive(zoom, y, x0 + 1, x1)

RECURSIVE TileRow(_, _, _, _)
\* the inner loop of getTileNames: x from x0 while x <= x1
TileRow(zoom, y, x0, x1) ==
  IF x0 > x1 THEN <<>> ELSE <<(<<zoom, x0, y>>)>> \o TileRow(zoom, y, x0 + 1, x1)

RECURSIVE TileRows(_, _, _, _, _)
\* the outer loop of getTileNames: y from y0 while y <= y1
TileRows(zoom, y0, y1, x0, x1) ==
  IF y0 > y1 THEN <<>>
  ELSE TileRow(zoom, y0, x0, x1) \o TileRows(zoom, y0 + 1, y1, x0, x1)

\* getTileNames with its loops nested the other way round (x outside, y
\* inside): the tiles column by column
getTileNamesByColumn(bounds, zoomLevel) ==
  LET nw == calculateOSMTile(bounds.north, bounds.west, zoomLevel)
      se == calculateOSMTile(bounds.south, bounds.east, zoomLevel)
      w == se.tileX - nw.tileX + 1
      h == se.tileY - nw.tileY + 1
  IN  IF w <= 0 \/ h <= 0 THEN <<>>
      ELSE Flat([i \in 1..w |->
                   [j \in 1..h |-> <<zoomLevel, nw.tileX + i - 1, nw.tileY + j - 1>>]])

\* getTileNames(bounds, zoomLevel).tiles; a tile name `z/x/y` is <<z, x, y>>
getTileNames(bounds, zoomLevel) ==
  LET nw == calculateOSMTile(bounds.north, bounds.west, zoomLevel)
      se == calculateOSMTile(bounds.south, bounds.east, zoomLevel)
  IN  TileRows(zoomLevel, nw.tileY, se.tileY, nw.tileX, se.tileX)

\* tile2LatLng(z, x, y): the north-west corner of tile x, y
tile2LatLng(z, x, y) == [lat |-> y * TileSpan(z), lng |-> x * TileSpan(z)]

\* the envelope of the uncached tiles (the forEach over uncachedTiles); the
\* initial values -90/90/-180/180 are never left in place for a non-empty set
uncachedBoundsOf(tiles) ==
  [north |-> SetMin({tile2LatLng(t[1], t[2], t[3]).lat : t \in tiles}),
   south |-> SetMax({tile2LatLng(t[1], t[2] + 1, t[3] + 1).lat : t \in tiles}),
   east  |-> SetMax({tile2LatLng(t[1], t[2] + 1, t[3] + 1).lng : t \in tiles}),
   west  |-> SetMin({tile2LatLng(t[1], t[2], t[3]).lng : t \in tiles})]

\* ------------------------------------------------------------------ grid policy
Undefined == "undefined"

\* the chain with its thresholds taken inclusively (>= 17, >= 13)
gridTypeInclusive(zoomLevel) ==
  IF zoomLevel >= 17 THEN "50m" ELSE IF zoomLevel >= 13 THEN "100m" ELSE "500m"

\* the if/else chain of getGridLines that picks the line_type of the query
gridTypeOf(zoomLevel) ==
  IF zoomLevel > 17 THEN "50m" ELSE IF zoomLevel > 13 THEN "100m" ELSE "500m"

dashArrayOf(gridType) ==
  IF gridType = "50m" THEN "10, 10"
  ELSE IF gridType = "100m" THEN "15, 10" ELSE Undefined

\* result.rows.map(row => ({type, properties, geometry}))
Feature(row, gridType) ==
  [type |-> "Feature",
   properties |-> [name |-> row.name, color |-> row.color, weight |-> 2,
                   opacity |-> "0.7", dashArray |-> dashArrayOf(gridType)],
   geometry |-> row.geom]

\* JSON.stringify followed by JSON.parse of one feature: a property whose value
\* is undefined is not written
JsonFeature(f) ==
  IF f.properties.dashArray = Undefined
  THEN [f EXCEPT !.properties =
           [k \in (DOMAIN f.properties) \ {"dashArray"} |-> f.properties[k]]]
  ELSE f

JsonFeatures(fs) == [i \in 1..Len(fs) |-> JsonFeature(fs[i])]

\* ------------------------------------------------------- content fingerprint
\* A 32-bit integer (what `<<` and `hash & hash` leave of a number) is held as
\* its two 16-bit halves <<hi, lo>> in two's complement, so that no
\* intermediate value leaves the range of the model checker's integers.
Half == Pow2(16)

Int32Of(n) == <<(n \div Half) % Half, n % Half>>

\* a + b as a 32-bit integer
Add32(a, b) ==
  LET lo == a[2] + b[2]
  IN  <<(a[1] + b[1] + lo \div Half) % Half, lo % Half>>

\* -a as a 32-bit integer
Neg32(a) == Add32(<<(Half - 1) - a[1], (Half - 1) - a[2]>>, <<0, 1>>)

\* a << 5
Shl5(a) ==
  LET lo == a[2] * 32
  IN  <<(a[1] * 32 + lo \div Half) % Half, lo % Half>>

IsNegative32(a) == a[1] >= Half \div 2

\* Math.abs of a 32-bit integer, as an unsigned pair (|-2^31| is 2^31)
Abs32(a) == IF IsNegative32(a) THEN Neg32(a) ELSE a

\* Object.keys(data).sort() of an array: its indices (as numbers here; the key
\* itself is ToString(i)).  The order is the numeric one below eleven elements.
PropertyListOf(data) == [i \in 1..Len(data) |-> i - 1]

RECURSIVE DigitChars(_)
\* the decimal digits of n as character codes
DigitChars(n) ==
  IF n < 10 THEN <<48 + n>> ELSE DigitChars(n \div 10) \o <<48 + (n % 10)>>

RECURSIVE SerializeJSONObject(_, _)
\* JSON.stringify of an object under a replacer array: only the properties
\* named in PropertyList are written, each value by the same rule
SerializeJSONObject(value, PropertyList) ==
  LET K == SelectSeq(PropertyList, LAMBDA P : ToString(P) \in DOMAIN value)
      member(i) == (IF i > 1 THEN <<44>> ELSE <<>>)
                   \o <<34>> \o DigitChars(K[i]) \o <<34, 58>>
                   \o SerializeJSONObject(value[ToString(K[i])], PropertyList)
  IN  <<123>> \o Flat([i \in 1..Len(K) |-> member(i)]) \o <<125>>

\* JSON.stringify of an array under a replacer array: every element is written
SerializeJSONArray(data, PropertyList) ==
  LET element(i) == (IF i > 1 THEN <<44>> ELSE <<>>)
                    \o SerializeJSONObject(data[i], PropertyList)
  IN  <<91>> \o Flat([i \in 1..Len(data) |-> element(i)]) \o <<93>>

RECURSIVE HashOf(_, _)
\* the for loop of createContentKey over the characters of str:
\* hash = (hash << 5) - hash + char; hash = hash & hash
HashOf(hash, str) ==
  IF str = <<>> THEN hash
  ELSE HashOf(Add32(Add32(Shl5(hash), Neg32(hash)), Int32Of(Head(str))),
              Tail(str))

RECURSIVE ToString36(_)
\* Number.prototype.toString(36) of a non-negative integer given as a pair of
\* halves, as digit values (long division by 36)
ToString36(n) ==
  LET t == (n[1] % 36) * Half + n[2]
      q == <<n[1] \div 36, t \div 36>>
  IN  IF q = <<0, 0>> THEN <<t % 36>> ELSE ToString36(q) \o <<t % 36>>

\* a key made of the features in the order of the list (JSON.stringify(data)
\* with nothing to put the list in a canonical order)
createContentKeyInOrder(data) ==
  [ns |-> "content",
   id |-> [i \in 1..Len(data) |-> IF data[i].properties.name = "L1" THEN 1
                                  ELSE IF data[i].properties.name = "L2" THEN 2
                                  ELSE 3]]

\* createContentKey(data): `content:` + base 36 of |hash|
createContentKey(data) ==
  [ns |-> "content",
   id |-> ToString36(Abs32(HashOf(<<0, 0>>,
                 SerializeJSONArray(data, PropertyListOf(data)))))]

\* createTileKey(tileName): `tile:` + name (a name of this model always has
\* its three parts, so the format error is never thrown)
createTileKey(tileName) == [ns |-> "tile", id |-> tileName]

\* ------------------------------------------------------------------ datastore
\* the geolines table: axis-aligned lines with a name, a colour and a type
HomeX == 18653           \* zoom 15 column of the fallback viewport's west edge
HomeY == 9483            \* a zoom 15 row crossing the fallback viewport
Span15 == TileSpan(15)

geolines ==
  { [name |-> "L1", color |-> "#0000ff", line_type |-> "100m",
     geom |-> << <<HomeX * Span15 + 4, HomeY * Span15>>,
                 <<HomeX * Span15 + 4, (HomeY + 1) * Span15 - 1>> >>],
    [name |-> "L2", color |-> "#0000ff", line_type |-> "100m",
     geom |-> << <<(HomeX + 1) * Span15 + 6, HomeY * Span15>>,
                 <<(HomeX + 1) * Span15 + 6, (HomeY + 1) * Span15 - 1>> >>],
    [name |-> "L3", color |-> "#ffff00", line_type |-> "500m",
     geom |-> << <<(HomeX + 2) * Span15 + 8, HomeY * Span15>>,
                 <<(HomeX + 2) * Span15 + 8, (HomeY + 1) * Span15 - 1>> >>] }

\* ST_Intersects(geom, ST_MakeEnvelope(west, south, east, north)) for an
\* axis-aligned line: the closed box and the closed segment share a point
ST_Intersects(geom, env) ==
  /\ Min(geom[1][1], geom[2][1]) <= env.east
  /\ Max(geom[1][1], geom[2][1]) >= env.west
  /\ Min(geom[1][2], geom[2][2]) <= env.south
  /\ Max(geom[1][2], geom[2][2]) >= env.north

\* the rows the SELECT of getGridLines matches
SelectRows(gridType, env) ==
  {row \in geolines : row.line_type = gridType /\ ST_Intersects(row.geom, env)}

\* --------------------------------------------------------------- the requests
\* viewports of the clients: one row of three zoom 15 tiles, west to east
ViewNorth == HomeY * Span15 + 4
ViewSouth == HomeY * Span15 + 12
Viewports ==
  { [north |-> ViewNorth, south |-> ViewSouth,
     west |-> (HomeX + i) * Span15 + 2, east |-> (HomeX + j) * Span15 + 14] :
    <<i, j>> \in {<<0, 0>>, <<0, 1>>, <<2, 2>>} }

\* the zoom query parameter as sent
RawZooms == {0, NoGridZoom, DefaultZoom}

NaN == -1

\* A query parameter as sent, as an integer: n >= 0 is the decimal text of n;
\* Absent is a parameter that is not in the query string (undefined);
\* NotANumber is a text that does not begin with a number ("abc", "");
\* TrailingJunk(n) is the text of n followed by other characters ("12abc").
Absent == -1
NotANumber == -2
TrailingJunk(n) == -(n + 3)

\* Number(raw): the whole text must be a number
parseFloatStrict(raw) == IF raw \in Nat THEN raw ELSE NaN

\* parseFloat(raw): the number the text begins with, NaN when there is none
parseFloat(raw) ==
  IF raw \in Nat THEN raw ELSE IF raw <= TrailingJunk(0) THEN -(raw + 3) ELSE NaN
\* a || b on numbers: NaN and 0 are falsy
OrDefault(a, b) == IF a = NaN \/ a = 0 THEN b ELSE a

NoKey == [ns |-> "none", id |-> <<>>]
Miss == [hit |-> FALSE, data |-> <<>>]
NoResp == [status |-> 0]
NoPrev == [fresh |-> FALSE]
NoCall == [requestId |-> 0, activeCount |-> 0, delay |-> 0]

\* the fallback viewport of the handler (60.1819, 60.1619, 24.9514, 24.9314)
DefaultNorth == 151721
DefaultSouth == 151780
DefaultEast == 298482
DefaultWest == 298452

InitFrame ==
  [pc |-> "idle", rawZoom |-> 0,
   rawBounds |-> [north |-> 0, south |-> 0, east |-> 0, west |-> 0],
   bounds |-> [north |-> 0, south |-> 0, east |-> 0, west |-> 0],
   zoomLevel |-> 0, keysPending |-> {}, cachedContentKeys |-> <<>>,
   contentPending |-> {}, cachedContents |-> <<>>, features |-> <<>>,
   setsPending |-> {}, queries |-> 0, requestId |-> 0, delay |-> 0,
   activeCount |-> 0, error |-> "none", base |-> NoPrev, resp |-> NoResp]

VARIABLES
  cache,            \* memcached: key -> [val, ttl], absent keys not in DOMAIN
  activeRequests,   \* requestTracker.activeRequests
  lastRequestId,    \* requestTracker.lastRequestId
  req,              \* the frame of the /api/grid handler in each slot
  up,               \* the node process is running
  last,             \* the frame of the handler that has just finished (kept
                    \* until the next request arrives)
  prev,             \* the last response sent by a request that ran undisturbed
  quiet,            \* since the handler in progress began, no other handler
                    \* has run and no cache entry has expired
  call              \* what the latest trackRequest() returns to its caller

vars == <<cache, activeRequests, lastRequestId, req, up, last, prev, quiet,
          call>>

Finished(f) == f.pc \in {"done", "rejected"}
InProgress(f) == f.pc \notin {"idle", "done", "rejected", "aborted"}
Running == {r \in Slots : InProgress(req[r])}

\* ------------------------------------------------------------------ the cache
\* memcached.get: the stored value, or nothing for a key that is absent
CacheHas(key) == key \in DOMAIN cache
\* memcached.set(key, value, expires)
CacheSet(c, key, value, expires) ==
  [k \in (DOMAIN c) \cup {key} |->
     IF k = key THEN [val |-> value, ttl |-> expires] ELSE c[k]]
\* the entries still alive once `secs` seconds have passed
CacheAged(c, secs) ==
  LET live == {k \in DOMAIN c : c[k].ttl > secs}
  IN  [k \in live |-> [c[k] EXCEPT !.ttl = @ - secs]]

\* -------------------------------------------------- getGridLines, by its parts
tileNamesOf(f) == getTileNames(f.bounds, f.zoomLevel)

\* cachedTiles and uncachedTiles of the forEach over tileNames
cachedTilesOf(f) ==
  {t \in DOMAIN f.cachedContentKeys : f.cachedContentKeys[t] # NoKey}

\* the forEach over tileNames without its else: every tile is added to
\* uncachedTiles
uncachedTilesOfAll(f) == DOMAIN f.cachedContentKeys

\* uncachedTiles: the tiles whose read returned nothing
uncachedTilesOf(f) ==
  {t \in DOMAIN f.cachedContentKeys : f.cachedContentKeys[t] = NoKey}

RECURSIVE Unique(_)
\* [...new Set(xs)]: first occurrences, in order
Unique(xs) ==
  IF xs = <<>> THEN <<>>
  ELSE LET init == Unique(SubSeq(xs, 1, Len(xs) - 1))
           x == xs[Len(xs)]
       IN  IF x \in Range(init) THEN init ELSE Append(init, x)

\* uniqueContentKeys: the found keys in tile order, without repetition
uniqueContentKeysOf(f) ==
  LET names == tileNamesOf(f)
      keys == [i \in 1..Len(names) |-> f.cachedContentKeys[names[i]]]
  IN  Unique(SelectSeq(keys, LAMBDA k : k # NoKey))

\* cachedFeatures: cachedContents.filter(Boolean).flat()
cachedFeaturesOf(f) ==
  LET keys == uniqueContentKeysOf(f)
      found == SelectSeq(keys, LAMBDA k : f.cachedContents[k].hit)
  IN  Flat([i \in 1..Len(found) |-> f.cachedContents[found[i]].data])

\* ---------------------------------------------------------------- the throttle
\* the delay without its cap (what the code would compute without Math.min)
trackDelayUncapped(activeCount) == baseDelay * Pow2(activeCount - 1)

\* the delay by the exponent of getCurrentDelay (2^activeCount)
trackDelayByCount(activeCount) == Min(baseDelay * Pow2(activeCount), maxDelay)

\* the delay wrapped at maxDelay in place of being capped
trackDelayWrapped(activeCount) == (baseDelay * Pow2(activeCount - 1)) % maxDelay

\* the delay trackRequest computes from the size of the in-flight set
trackDelay(activeCount) == Min(baseDelay * Pow2(activeCount - 1), maxDelay)

\* a completion that empties the in-flight set (activeRequests.clear())
completeRequestClear(active, requestId) == {}

\* requestTracker.completeRequest(requestId)
completeRequest(active, requestId) == active \ {requestId}

\* ------------------------------------------------------- the /api/grid handler
\* what getGridLines returns to the handler
cachedOf(f) == IF f.zoomLevel <= NoGridZoom THEN <<>> ELSE cachedFeaturesOf(f)
\* the statistics with the cached features counted in place of the tiles
cacheStatsByFeatures(f) ==
  IF f.zoomLevel <= NoGridZoom THEN [cached |-> 0, total |-> 0]
  ELSE [cached |-> Len(cachedFeaturesOf(f)), total |-> Len(tileNamesOf(f))]

cacheStatsOf(f) ==
  IF f.zoomLevel <= NoGridZoom THEN [cached |-> 0, total |-> 0]
  ELSE [cached |-> Cardinality(cachedTilesOf(f)), total |-> Len(tileNamesOf(f))]

\* res.json({type: "FeatureCollection", features, metadata})
Respond(f) ==
  [f EXCEPT
     !.pc = "done",
     !.resp =
       [status |-> 200,
        features |-> JsonFeatures(cachedOf(f) \o f.features),
        metadata |->
          [currentDelay |-> f.delay, activeRequests |-> f.activeCount,
           cacheInfo |->
             [cached |-> Len(cachedOf(f)), queried |-> Len(f.features),
              zoomLevel |-> f.zoomLevel, tilesInZoom |-> cacheStatsOf(f)]]]]

\* The catch block of the handler.  Its first statement reads requestId, which
\* is declared by `let` (by `const` in the earlier revision) inside the try
\* block and is not in scope here: in a module (strict code) the read throws a
\* ReferenceError, the handler's promise is rejected, and neither
\* completeRequest nor res.status(500).json() is reached.
CatchBlock(f, error) == [f EXCEPT !.pc = "rejected", !.error = error]

\* an early return taken as soon as some tile is cached
AnythingCached(f) == cachedTilesOf(f) # {}

\* the early return of getGridLines: nothing is left to query
EverythingCached(f) == uncachedTilesOf(f) = {}

\* the rest of getGridLines once every content read is answered: return what
\* is cached when no tile is uncached, else send the query
AfterContent(f) ==
  IF EverythingCached(f) THEN [f EXCEPT !.pc = "returned"]
  ELSE [f EXCEPT !.pc = "query", !.queries = @ + 1]

\* the rest of getGridLines once every tile read is answered: read the
\* contents of the keys found, if any
AfterLookup(f) ==
  LET keys == uniqueContentKeysOf(f)
  IN  IF keys # <<>>
      THEN [f EXCEPT !.pc = "content", !.contentPending = Range(keys)]
      ELSE AfterContent(f)

\* the throttle applied to every request, whatever was queried
AlwaysThrottled(f) == Len(f.features) >= 0

\* `if (queried.length > 0)` of the handler: the throttle is applied
HadToQuery(f) == Len(f.features) > 0

\* history: the response of a request that ran undisturbed becomes `prev`
PrevAfter(f) ==
  IF f.pc = "done"
  THEN IF quiet
       THEN [fresh |-> TRUE, bounds |-> f.bounds, rawZoom |-> f.rawZoom,
             features |-> Range(f.resp.features)]
       ELSE NoPrev
  ELSE IF f.pc = "rejected" THEN NoPrev ELSE prev

\* the finished frame as kept in `last`: with the response that preceded it
\* when it ran undisturbed right after that response
LastOf(f) == [f EXCEPT !.base = IF quiet THEN prev ELSE NoPrev]

\* the new frame of slot r; a handler that has finished leaves its frame in
\* `last` and frees the slot
Settle(r, f) ==
  /\ req' = [req EXCEPT ![r] = IF Finished(f) THEN InitFrame ELSE f]
  /\ last' = IF Finished(f) THEN LastOf(f) ELSE last
  /\ prev' = PrevAfter(f)

\* The handler goes on with frame f of slot r.  Once getGridLines has returned
\* it calls trackRequest when there are queried features (the id is issued
\* and added to the in-flight set, the delay computed, and the handler
\* sleeps), and answers at once when there are none.
Proceed(r, f) ==
  LET requestId == lastRequestId + 1
      active == activeRequests \cup {requestId}
      activeCount == Cardinality(active)
  IN  IF f.pc = "returned" /\ HadToQuery(f)
      THEN /\ lastRequestId' = requestId
           /\ activeRequests' = active
           /\ call' = [requestId |-> requestId, activeCount |-> activeCount,
                       delay |-> trackDelay(activeCount)]
           /\ Settle(r, [f EXCEPT !.pc = "sleep", !.requestId = requestId,
                                  !.activeCount = activeCount,
                                  !.delay = trackDelay(activeCount)])
      ELSE /\ Settle(r, IF f.pc = "returned" THEN Respond(f) ELSE f)
           /\ UNCHANGED <<lastRequestId, activeRequests, call>>

\* the handler with the short-circuit of getGridLines taken below zoom 10
\* only (zoomLevel < 10)
StartRequestNoShortCut(r, q) ==
  /\ up
  /\ ~InProgress(req[r])
  /\ \A s \in Slots : s < r => InProgress(req[s])
  /\ lastRequestId + Cardinality(Running) < MaxRequestId
  /\ quiet' = (Running = {})
  /\ LET zoomLevel == OrDefault(parseFloat(q.zoom), DefaultZoom)
         bounds == [north |-> OrDefault(parseFloat(q.north), DefaultNorth),
                    south |-> OrDefault(parseFloat(q.south), DefaultSouth),
                    east |-> OrDefault(parseFloat(q.east), DefaultEast),
                    west |-> OrDefault(parseFloat(q.west), DefaultWest)]
         f0 == [InitFrame EXCEPT !.rawZoom = q.zoom, !.bounds = bounds,
                                 !.rawBounds = [north |-> q.north,
                                                south |-> q.south,
                                                east |-> q.east,
                                                west |-> q.west],
                                 !.zoomLevel = zoomLevel]
         names == getTileNames(bounds, zoomLevel)
         f1 == IF zoomLevel < NoGridZoom THEN [f0 EXCEPT !.pc = "returned"]
               ELSE IF names = <<>> THEN AfterLookup(f0)
               ELSE [f0 EXCEPT !.pc = "lookup", !.keysPending = Range(names)]
         f2 == IF f1.pc = "returned" THEN Respond(f1) ELSE f1
     IN  /\ req' = [req EXCEPT ![r] = IF Finished(f2) THEN InitFrame ELSE f2]
         /\ last' = IF ~Finished(f2) THEN InitFrame
                    ELSE [f2 EXCEPT !.base = IF Running = {} THEN prev ELSE NoPrev]
         /\ prev' = IF Running # {} THEN NoPrev
                    ELSE IF Finished(f2)
                    THEN [fresh |-> TRUE, bounds |-> f2.bounds,
                          rawZoom |-> f2.rawZoom,
                          features |-> Range(f2.resp.features)]
                    ELSE prev
  /\ UNCHANGED <<cache, activeRequests, lastRequestId, up, call>>

\* a request arrives: the handler parses the query and getGridLines runs up to
\* its first await
StartRequest(r, q) ==
  /\ up
  /\ ~InProgress(req[r])
  /\ \A s \in Slots : s < r => InProgress(req[s])   \* the first free frame
  /\ lastRequestId + Cardinality(Running) < MaxRequestId
  /\ quiet' = (Running = {})
  /\ LET zoomLevel == OrDefault(parseFloat(q.zoom), DefaultZoom)
         bounds == [north |-> OrDefault(parseFloat(q.north), DefaultNorth),
                    south |-> OrDefault(parseFloat(q.south), DefaultSouth),
                    east |-> OrDefault(parseFloat(q.east), DefaultEast),
                    west |-> OrDefault(parseFloat(q.west), DefaultWest)]
         f0 == [InitFrame EXCEPT !.rawZoom = q.zoom, !.bounds = bounds,
                                 !.rawBounds = [north |-> q.north,
                                                south |-> q.south,
                                                east |-> q.east,
                                                west |-> q.west],
                                 !.zoomLevel = zoomLevel]
         names == getTileNames(bounds, zoomLevel)
         f1 == IF zoomLevel <= NoGridZoom THEN [f0 EXCEPT !.pc = "returned"]
               ELSE IF names = <<>> THEN AfterLookup(f0)
               ELSE [f0 EXCEPT !.pc = "lookup", !.keysPending = Range(names)]
         f2 == IF f1.pc = "returned" THEN Respond(f1) ELSE f1
     IN  \* nothing is queried before the first await: HadToQuery(f1) is false
         /\ req' = [req EXCEPT ![r] = IF Finished(f2) THEN InitFrame ELSE f2]
         /\ last' = IF ~Finished(f2) THEN InitFrame
                    ELSE [f2 EXCEPT !.base = IF Running = {} THEN prev ELSE NoPrev]
         /\ prev' = IF Running # {} THEN NoPrev
                    ELSE IF Finished(f2)
                    THEN [fresh |-> TRUE, bounds |-> f2.bounds,
                          rawZoom |-> f2.rawZoom,
                          features |-> Range(f2.resp.features)]
                    ELSE prev
  /\ UNCHANGED <<cache, activeRequests, lastRequestId, up, call>>

\* memcached answers getCache(createTileKey(tile)) of the first Promise.all
GetTileReply(r, t) ==
  /\ up
  /\ req[r].pc = "lookup"
  /\ t \in req[r].keysPending
  /\ LET key == createTileKey(t)
         v == IF CacheHas(key) THEN cache[key].val ELSE NoKey
         f1 == [req[r] EXCEPT !.keysPending = @ \ {t},
                              !.cachedContentKeys = @ @@ (t :> v)]
     IN  Proceed(r, IF f1.keysPending = {} THEN AfterLookup(f1) ELSE f1)
  /\ UNCHANGED <<cache, up, quiet>>

\* memcached answers getCache(key) of the second Promise.all
GetContentReply(r, k) ==
  /\ up
  /\ req[r].pc = "content"
  /\ k \in req[r].contentPending
  /\ LET v == IF CacheHas(k) THEN [hit |-> TRUE, data |-> cache[k].val] ELSE Miss
         f1 == [req[r] EXCEPT !.contentPending = @ \ {k},
                              !.cachedContents = @ @@ (k :> v)]
     IN  Proceed(r, IF f1.contentPending = {} THEN AfterContent(f1) ELSE f1)
  /\ UNCHANGED <<cache, up, quiet>>

\* the query sent for the envelope of every tile of the request, cached or
\* not (tileNames in place of uncachedTiles)
QueryOkWholeViewport(r, rows) ==
  /\ up
  /\ req[r].pc = "query"
  /\ LET gridType == gridTypeOf(req[r].zoomLevel)
         env == uncachedBoundsOf(DOMAIN req[r].cachedContentKeys)
     IN  /\ rows \in Perms(SelectRows(gridType, env))
         /\ req' = [req EXCEPT ![r].pc = "setContent",
                               ![r].features =
                                  [i \in 1..Len(rows) |-> Feature(rows[i], gridType)]]
  /\ UNCHANGED <<cache, activeRequests, lastRequestId, up, last, prev, quiet,
                 call>>

\* the datastore answers pool.query with its rows, in an order of its choosing;
\* the features are built and setCache(contentKey, features) is sent
QueryOk(r, rows) ==
  /\ up
  /\ req[r].pc = "query"
  /\ LET gridType == gridTypeOf(req[r].zoomLevel)
         env == uncachedBoundsOf(uncachedTilesOf(req[r]))
     IN  /\ rows \in Perms(SelectRows(gridType, env))
         /\ req' = [req EXCEPT ![r].pc = "setContent",
                               ![r].features =
                                  [i \in 1..Len(rows) |-> Feature(rows[i], gridType)]]
  /\ UNCHANGED <<cache, activeRequests, lastRequestId, up, last, prev, quiet,
                 call>>

\* a failed query that leaves an empty batch in the cache
QueryFailCaching(r) ==
  /\ up
  /\ req[r].pc = "query"
  /\ cache' = CacheSet(cache, createContentKey(<<>>), <<>>, ContentTTL)
  /\ Settle(r, CatchBlock(req[r], "query"))
  /\ UNCHANGED <<activeRequests, lastRequestId, up, quiet, call>>

\* pool.query rejects (the datastore is down or the query fails): control
\* passes to the catch block of the handler
QueryFail(r) ==
  /\ up
  /\ req[r].pc = "query"
  /\ Settle(r, CatchBlock(req[r], "query"))
  /\ UNCHANGED <<cache, activeRequests, lastRequestId, up, quiet, call>>

\* the content write followed by a tile write for every tile of the request,
\* cached or not (tileNames in place of uncachedTiles)
SetContentAckAllTiles(r) ==
  /\ up
  /\ req[r].pc = "setContent"
  /\ cache' = CacheSet(cache, createContentKey(req[r].features),
                       JsonFeatures(req[r].features), ContentTTL)
  /\ req' = [req EXCEPT ![r].pc = "setTiles",
                        ![r].setsPending = DOMAIN req[r].cachedContentKeys]
  /\ UNCHANGED <<activeRequests, lastRequestId, up, last, prev, quiet, call>>

\* setCache(contentKey, features) sent without await: the tile writes are sent
\* while the content write is still on its way
SetContentAckUnawaited(r) ==
  /\ up
  /\ req[r].pc = "setContent"
  /\ cache' = cache
  /\ req' = [req EXCEPT ![r].pc = "setTiles",
                        ![r].setsPending = uncachedTilesOf(req[r])]
  /\ UNCHANGED <<activeRequests, lastRequestId, up, last, prev, quiet, call>>

\* memcached stores the content entry (expires = 300 by default) and answers;
\* the tile writes of the third Promise.all are sent
SetContentAck(r) ==
  /\ up
  /\ req[r].pc = "setContent"
  /\ cache' = CacheSet(cache, createContentKey(req[r].features),
                       JsonFeatures(req[r].features), ContentTTL)
  /\ req' = [req EXCEPT ![r].pc = "setTiles",
                        ![r].setsPending = uncachedTilesOf(req[r])]
  /\ UNCHANGED <<activeRequests, lastRequestId, up, last, prev, quiet, call>>

\* the tile write sent without its third argument: setCache(key, contentKey)
\* stores with the default expires = 300
SetTileAckDefaultExpiry(r, t) ==
  /\ up
  /\ req[r].pc = "setTiles"
  /\ t \in req[r].setsPending
  /\ cache' = CacheSet(cache, createTileKey(t),
                       createContentKey(req[r].features), ContentTTL)
  /\ LET f1 == [req[r] EXCEPT !.setsPending = @ \ {t}]
     IN  Proceed(r, IF f1.setsPending = {} THEN [f1 EXCEPT !.pc = "returned"]
                    ELSE f1)
  /\ UNCHANGED <<up, quiet>>

\* the tile writes sent and not awaited: getGridLines returns at the first
\* answer, while the other writes are still on their way
SetTileAckUnawaited(r, t) ==
  /\ up
  /\ req[r].pc = "setTiles"
  /\ t \in req[r].setsPending
  /\ cache' = CacheSet(cache, createTileKey(t),
                       createContentKey(req[r].features), TileTTL)
  /\ Proceed(r, [req[r] EXCEPT !.setsPending = @ \ {t}, !.pc = "returned"])
  /\ UNCHANGED <<up, quiet>>

\* the tile write as memcached.add: an entry that is there is left as it is
\* (the first writer wins)
SetTileAckAdd(r, t) ==
  /\ up
  /\ req[r].pc = "setTiles"
  /\ t \in req[r].setsPending
  /\ cache' = IF CacheHas(createTileKey(t)) THEN cache
              ELSE CacheSet(cache, createTileKey(t),
                            createContentKey(req[r].features), TileTTL)
  /\ LET f1 == [req[r] EXCEPT !.setsPending = @ \ {t}]
     IN  Proceed(r, IF f1.setsPending = {} THEN [f1 EXCEPT !.pc = "returned"]
                    ELSE f1)
  /\ UNCHANGED <<up, quiet>>

\* memcached stores one tile entry (expires = 3600) and answers; after the
\* last one getGridLines returns and the handler goes on
SetTileAck(r, t) ==
  /\ up
  /\ req[r].pc = "setTiles"
  /\ t \in req[r].setsPending
  /\ cache' = CacheSet(cache, createTileKey(t),
                       createContentKey(req[r].features), TileTTL)
  /\ LET f1 == [req[r] EXCEPT !.setsPending = @ \ {t}]
     IN  Proceed(r, IF f1.setsPending = {} THEN [f1 EXCEPT !.pc = "returned"]
                    ELSE f1)
  /\ UNCHANGED <<up, quiet>>

\* the timer of trackRequest fires: trackRequest returns, the handler calls
\* completeRequest(requestId) and sends the response
WakeUp(r) ==
  /\ up
  /\ req[r].pc = "sleep"
  /\ activeRequests' = completeRequest(activeRequests, req[r].requestId)
  /\ Settle(r, Respond(req[r]))
  /\ UNCHANGED <<cache, lastRequestId, up, quiet, call>>

\* TimeStep seconds pass: memcached drops the entries whose time is over
Tick ==
  /\ cache # CacheAged(cache, TimeStep)
  /\ cache' = CacheAged(cache, TimeStep)
  /\ prev' = IF DOMAIN cache' # DOMAIN cache THEN NoPrev ELSE prev
  /\ quiet' = (quiet /\ DOMAIN cache' = DOMAIN cache)
  /\ UNCHANGED <<activeRequests, lastRequestId, req, up, last, call>>

\* The rejection of a handler's promise is handled by nobody in the program.
\* Where the runtime ends the process on an unhandled rejection (node 20, the
\* image of the backend, unless the framework takes the rejection), the
\* tracker and every handler in progress are lost; memcached is another
\* process and keeps its entries.
Crash ==
  /\ up
  /\ last.pc = "rejected"
  /\ up' = FALSE
  /\ activeRequests' = {}
  /\ lastRequestId' = 0
  /\ req' = [s \in Slots |->
               IF InProgress(req[s]) THEN [req[s] EXCEPT !.pc = "aborted"]
               ELSE req[s]]
  /\ prev' = NoPrev
  /\ UNCHANGED <<cache, last, quiet, call>>

\* ------------------------------------------------ memcached operations failing
\* (the callback of memcached.get / memcached.set is given an error: getCache
\* or setCache rejects, the Promise.all that holds it rejects, getGridLines
\* throws and control passes to the catch block of the handler)

\* getCache(createTileKey(t)) of the first Promise.all fails; the tile is left
\* unanswered
GetTileFail(r, t) ==
  /\ up
  /\ req[r].pc = "lookup"
  /\ t \in req[r].keysPending
  /\ Settle(r, CatchBlock(req[r], "tileGet"))
  /\ UNCHANGED <<cache, activeRequests, lastRequestId, up, quiet, call>>

\* getCache(k) of the second Promise.all fails
GetContentFail(r, k) ==
  /\ up
  /\ req[r].pc = "content"
  /\ k \in req[r].contentPending
  /\ Settle(r, CatchBlock(req[r], "contentGet"))
  /\ UNCHANGED <<cache, activeRequests, lastRequestId, up, quiet, call>>

\* setCache(contentKey, features) fails: nothing is stored
SetContentFail(r) ==
  /\ up
  /\ req[r].pc = "setContent"
  /\ Settle(r, CatchBlock(req[r], "contentSet"))
  /\ UNCHANGED <<cache, activeRequests, lastRequestId, up, quiet, call>>

RECURSIVE CacheSetAll(_, _, _, _)
\* memcached.set(createTileKey(t), value, expires) for every tile t of a set
CacheSetAll(c, tiles, value, expires) ==
  IF tiles = {} THEN c
  ELSE LET t == CHOOSE x \in tiles : TRUE
       IN  CacheSetAll(CacheSet(c, createTileKey(t), value, expires),
                       tiles \ {t}, value, expires)

\* setCache(createTileKey(t), contentKey, 3600) of the third Promise.all
\* fails.  The writes of the other tiles were all sent with it: memcached
\* stores those of `stored`, whatever becomes of the handler.
SetTileFail(r, t, stored) ==
  /\ up
  /\ req[r].pc = "setTiles"
  /\ t \in req[r].setsPending
  /\ stored \subseteq req[r].setsPending \ {t}
  /\ cache' = CacheSetAll(cache, stored, createContentKey(req[r].features),
                          TileTTL)
  /\ Settle(r, CatchBlock(req[r], "tileSet"))
  /\ UNCHANGED <<activeRequests, lastRequestId, up, quiet, call>>

\* -------------------------------------- the handler of the earlier revision
\* (no cache: the throttle first, then the query for the viewport itself)

\* res.json({type, features, metadata: {currentDelay, activeRequests}})
LegacyRespond(f) ==
  [f EXCEPT
     !.pc = "done",
     !.resp = [status |-> 200, features |-> JsonFeatures(f.features),
               metadata |-> [currentDelay |-> f.delay,
                             activeRequests |-> f.activeCount]]]

\* a request arrives: the handler parses the query and calls trackRequest,
\* which issues an id, adds it to the in-flight set and sleeps
LegacyStart(r, q) ==
  /\ up
  /\ ~InProgress(req[r])
  /\ \A s \in Slots : s < r => InProgress(req[s])
  /\ lastRequestId < MaxRequestId
  /\ LET requestId == lastRequestId + 1
         active == activeRequests \cup {requestId}
         activeCount == Cardinality(active)
     IN  /\ lastRequestId' = requestId
         /\ activeRequests' = active
         /\ call' = [requestId |-> requestId, activeCount |-> activeCount,
                     delay |-> trackDelay(activeCount)]
         /\ req' = [req EXCEPT ![r] =
              [InitFrame EXCEPT
                 !.pc = "legacySleep", !.rawZoom = q.zoom,
                 !.rawBounds = [north |-> q.north, south |-> q.south,
                                east |-> q.east, west |-> q.west],
                 !.zoomLevel = OrDefault(parseFloat(q.zoom), LegacyDefaultZoom),
                 !.bounds =
                    [north |-> OrDefault(parseFloat(q.north), DefaultNorth),
                     south |-> OrDefault(parseFloat(q.south), DefaultSouth),
                     east |-> OrDefault(parseFloat(q.east), DefaultEast),
                     west |-> OrDefault(parseFloat(q.west), DefaultWest)],
                 !.requestId = requestId, !.activeCount = activeCount,
                 !.delay = trackDelay(activeCount)]]
  /\ quiet' = (Running = {})
  /\ last' = InitFrame
  /\ prev' = IF Running # {} THEN NoPrev ELSE prev
  /\ UNCHANGED <<cache, up>>

\* the timer of trackRequest fires and getGridLines runs: no grid at zoom 10
\* or less (completeRequest and the response follow at once), else the query
LegacyWake(r) ==
  /\ up
  /\ req[r].pc = "legacySleep"
  /\ IF req[r].zoomLevel <= NoGridZoom
     THEN /\ activeRequests' = completeRequest(activeRequests, req[r].requestId)
          /\ Settle(r, LegacyRespond(req[r]))
     ELSE /\ req' = [req EXCEPT ![r].pc = "legacyQuery", ![r].queries = @ + 1]
          /\ UNCHANGED <<activeRequests, last, prev>>
  /\ UNCHANGED <<cache, lastRequestId, up, quiet, call>>

\* the datastore answers: completeRequest(requestId), then the response
LegacyQueryOk(r, rows) ==
  /\ up
  /\ req[r].pc = "legacyQuery"
  /\ LET gridType == gridTypeOf(req[r].zoomLevel)
         f1 == [req[r] EXCEPT !.features =
                  [i \in 1..Len(rows) |-> Feature(rows[i], gridType)]]
     IN  /\ rows \in Perms(SelectRows(gridType, req[r].bounds))
         /\ activeRequests' = completeRequest(activeRequests, req[r].requestId)
         /\ Settle(r, LegacyRespond(f1))
  /\ UNCHANGED <<cache, lastRequestId, up, quiet, call>>

\* pool.query rejects: control passes to the catch block, where requestId (a
\* const of the try block) is not in scope; completeRequest is not reached
LegacyQueryFail(r) ==
  /\ up
  /\ req[r].pc = "legacyQuery"
  /\ Settle(r, CatchBlock(req[r], "query"))
  /\ UNCHANGED <<cache, activeRequests, lastRequestId, up, quiet, call>>

\* ------------------------------------------------- the throttle on its own
\* trackRequest taking the least id above the number of requests in flight
\* (an id given back by completeRequest is issued again)
AdmitReusingIds ==
  /\ lastRequestId < MaxAdmits
  /\ LET requestId == Cardinality(activeRequests) + 1
         active == activeRequests \cup {requestId}
         activeCount == Cardinality(active)
     IN  /\ lastRequestId' = requestId
         /\ activeRequests' = active
         /\ call' = [requestId |-> requestId, activeCount |-> activeCount,
                     delay |-> trackDelay(activeCount)]
  /\ UNCHANGED <<cache, req, up, last, prev, quiet>>

\* trackRequest() called by any caller: the id is issued and added, the delay
\* computed; the caller sleeps for call.delay and is then handed `call`
Admit ==
  /\ lastRequestId < MaxAdmits
  /\ LET requestId == lastRequestId + 1
         active == activeRequests \cup {requestId}
         activeCount == Cardinality(active)
     IN  /\ lastRequestId' = requestId
         /\ activeRequests' = active
         /\ call' = [requestId |-> requestId, activeCount |-> activeCount,
                     delay |-> trackDelay(activeCount)]
  /\ UNCHANGED <<cache, req, up, last, prev, quiet>>

\* completeRequest(requestId) called with an id issued earlier
Release(requestId) ==
  /\ requestId \in 1..lastRequestId
  /\ activeRequests' = completeRequest(activeRequests, requestId)
  /\ UNCHANGED <<cache, lastRequestId, req, up, last, prev, quiet, call>>

\* ------------------------------------ getGridLines from the policy to the key
\* `queried` of getGridLines at a zoom level for the rows the datastore gives
GridFeatures(zoomLevel, rows) ==
  IF zoomLevel <= NoGridZoom THEN <<>>
  ELSE [i \in 1..Len(rows) |-> Feature(rows[i], gridTypeOf(zoomLevel))]

\* getGridLines at zoom level z with the datastore answering `rows`
BuildFeatures(z, rows) ==
  /\ req' = [req EXCEPT ![1] =
               [InitFrame EXCEPT !.pc = "returned", !.rawZoom = z,
                                 !.zoomLevel = z,
                                 !.features = GridFeatures(z, rows)]]
  /\ last' = InitFrame
  /\ UNCHANGED <<cache, activeRequests, lastRequestId, up, prev, quiet, call>>

\* getGridLines again at the same zoom level, the datastore answering `rows`;
\* the batch built before is kept in `last`
Refetch(rows) ==
  /\ req[1].pc = "returned"
  /\ last' = req[1]
  /\ req' = [req EXCEPT ![1].features = GridFeatures(req[1].zoomLevel, rows)]
  /\ UNCHANGED <<cache, activeRequests, lastRequestId, up, prev, quiet, call>>

\* the queries of the clients
QueryOf(b, z) ==
  [north |-> b.north, south |-> b.south, east |-> b.east, west |-> b.west,
   zoom |-> z]
\* every viewport at the fallback zoom, and one viewport at every zoom sent
Queries ==
  {QueryOf(b, DefaultZoom) : b \in Viewports}
    \cup {QueryOf(CHOOSE b \in Viewports : b.east \div Span15 = HomeX, z) :
            z \in RawZooms}

\* queries with a parameter left out or malformed: the query for the first
\* viewport at zoom 15 with one parameter not sent, or not a number, or a
\* number followed by other characters; and the query with no parameter
HomeQuery ==
  QueryOf(CHOOSE b \in Viewports : b.east \div Span15 = HomeX, DefaultZoom)
Garbled(raw) == {Absent, NotANumber, TrailingJunk(raw)}
LooseQueries ==
  {[HomeQuery EXCEPT !.north = g] : g \in Garbled(HomeQuery.north)}
    \cup {[HomeQuery EXCEPT !.south = g] : g \in Garbled(HomeQuery.south)}
    \cup {[HomeQuery EXCEPT !.east = g] : g \in Garbled(HomeQuery.east)}
    \cup {[HomeQuery EXCEPT !.west = g] : g \in Garbled(HomeQuery.west)}
    \cup {[HomeQuery EXCEPT !.zoom = g] : g \in Garbled(12)}
    \cup {[north |-> Absent, south |-> Absent, east |-> Absent,
           west |-> Absent, zoom |-> Absent]}

\* the first request a server receives after its start
FirstRequest(r, q) ==
  /\ cache = <<>>
  /\ lastRequestId = 0
  /\ Running = {}
  /\ StartRequest(r, q)

Init ==
  /\ cache = <<>>
  /\ activeRequests = {}
  /\ lastRequestId = 0
  /\ req = [s \in Slots |-> InitFrame]
  /\ up = TRUE
  /\ last = InitFrame
  /\ prev = NoPrev
  /\ quiet = TRUE
  /\ call = NoCall

Next ==
  \/ \E r \in Slots, q \in Queries : StartRequest(r, q)
  \/ \E r \in Slots : \E t \in req[r].keysPending : GetTileReply(r, t)
  \/ \E r \in Slots : \E k \in req[r].contentPending : GetContentReply(r, k)
  \/ \E r \in Slots, S \in SUBSET geolines : \E rows \in Perms(S) : QueryOk(r, rows)
  \/ \E r \in Slots : QueryFail(r)
  \/ \E r \in Slots : SetContentAck(r)
  \/ \E r \in Slots : \E t \in req[r].setsPending : SetTileAck(r, t)
  \/ \E r \in Slots : WakeUp(r)
  \/ Tick
  \/ Crash

Spec == Init /\ [][Next]_vars

NextLegacy ==
  \/ \E r \in Slots, q \in Queries : LegacyStart(r, q)
  \/ \E r \in Slots : LegacyWake(r)
  \/ \E r \in Slots, S \in SUBSET geolines :
        \E rows \in Perms(S) : LegacyQueryOk(r, rows)
  \/ \E r \in Slots : LegacyQueryFail(r)
  \/ Crash

SpecLegacy == Init /\ [][NextLegacy]_vars

NextThrottle ==
  \/ Admit
  \/ \E requestId \in 1..MaxAdmits : Release(requestId)

SpecThrottle == Init /\ [][NextThrottle]_vars

\* the server with memcached operations that may fail (the datastore answers
\* and no entry expires in the runs of this specification)
NextFaulty ==
  \/ \E r \in Slots, q \in Queries : StartRequest(r, q)
  \/ \E r \in Slots : \E t \in req[r].keysPending : GetTileReply(r, t)
  \/ \E r \in Slots : \E k \in req[r].contentPending : GetContentReply(r, k)
  \/ \E r \in Slots, S \in SUBSET geolines : \E rows \in Perms(S) : QueryOk(r, rows)
  \/ \E r \in Slots : SetContentAck(r)
  \/ \E r \in Slots : \E t \in req[r].setsPending : SetTileAck(r, t)
  \/ \E r \in Slots : WakeUp(r)
  \/ Crash
  \/ \E r \in Slots : \E t \in req[r].keysPending : GetTileFail(r, t)
  \/ \E r \in Slots : \E k \in req[r].contentPending : GetContentFail(r, k)
  \/ \E r \in Slots : SetContentFail(r)
  \/ \E r \in Slots : \E t \in req[r].setsPending :
        \E stored \in SUBSET (req[r].setsPending \ {t}) : SetTileFail(r, t, stored)

SpecFaulty == Init /\ [][NextFaulty]_vars

\* the policy, the feature list and its key over every zoom and every answer
NextFetch ==
  \/ \E z \in 0..MaxZoom, S \in SUBSET geolines :
        \E rows \in Perms(S) : BuildFeatures(z, rows)
  \/ \E S \in SUBSET geolines : \E rows \in Perms(S) : Refetch(rows)

SpecFetch == Init /\ [][NextFetch]_vars

\* one request with loose parameters on a server just started (memcached and
\* the datastore answer)
NextParams ==
  \/ \E r \in Slots, q \in LooseQueries : FirstRequest(r, q)
  \/ \E r \in Slots : \E t \in req[r].keysPending : GetTileReply(r, t)
  \/ \E r \in Slots, S \in SUBSET geolines : \E rows \in Perms(S) : QueryOk(r, rows)
  \/ \E r \in Slots : SetContentAck(r)
  \/ \E r \in Slots : \E t \in req[r].setsPending : SetTileAck(r, t)
  \/ \E r \in Slots : WakeUp(r)

SpecParams == Init /\ [][NextParams]_vars

\* The server under the scheduling of its runtime: a reply of memcached, the
\* outcome of pool.query (rows or an error) and the timer of trackRequest are
\* each delivered to the handler that awaits them.  Nothing obliges a client
\* to send a request, time to pass in the cache, or the process to end.
Fairness ==
  /\ \A r \in Slots :
       /\ WF_vars(\E t \in req[r].keysPending : GetTileReply(r, t))
       /\ WF_vars(\E k \in req[r].contentPending : GetContentReply(r, k))
       /\ WF_vars((\E S \in SUBSET geolines : \E rows \in Perms(S) : QueryOk(r, rows))
                    \/ QueryFail(r))
       /\ WF_vars(SetContentAck(r))
       /\ WF_vars(\E t \in req[r].setsPending : SetTileAck(r, t))
       /\ WF_vars(WakeUp(r))

SpecLive == Spec /\ Fairness

\* ------------------------------------------------- getTileNames on its own
\* the ordinates of the corners given to getTileNames: three longitudes and
\* three latitudes around the fallback viewport, in different tiles at zoom 16
CornerXs == {HomeX * Span15 + 2, (HomeX + 1) * Span15 + 6, (HomeX + 2) * Span15 + 14}
CornerYs == {HomeY * Span15 + 4, HomeY * Span15 + 12, (HomeY + 1) * Span15 + 3}
\* every choice of the four edges, the inverted and the collapsed ones included
TileBounds ==
  {[north |-> n, south |-> s, east |-> e, west |-> w] :
     n \in CornerYs, s \in CornerYs, e \in CornerXs, w \in CornerXs}
TileZooms == DefaultZoom..MaxTileZoom

\* what getTileNames(bounds, zoomLevel) returns: {tiles, bounds, stats, count}
TileNamesResult(bounds, zoomLevel) ==
  LET nw == calculateOSMTile(bounds.north, bounds.west, zoomLevel)
      se == calculateOSMTile(bounds.south, bounds.east, zoomLevel)
      tileNames == getTileNames(bounds, zoomLevel)
      range == [x |-> [min |-> nw.tileX, max |-> se.tileX],
                y |-> [min |-> nw.tileY, max |-> se.tileY]]
  IN  [tiles |-> tileNames, bounds |-> range,
       stats |-> [total |-> Len(tileNames), zoom |-> zoomLevel, bounds |-> range],
       count |-> Len(tileNames)]

NoTileCall == [pc |-> "idle"]

\* a call of getTileNames(bounds, zoomLevel)
GetTileNamesCall(bounds, zoomLevel) ==
  /\ last' = NoTileCall
  /\ req' = [req EXCEPT ![1] =
               [pc |-> "addressed", bounds |-> bounds, zoomLevel |-> zoomLevel,
                result |-> TileNamesResult(bounds, zoomLevel)]]
  /\ UNCHANGED <<cache, activeRequests, lastRequestId, up, prev, quiet, call>>

\* getTileNames called once more with the arguments of the latest call, which
\* is kept in `last`
GetTileNamesAgain ==
  /\ req[1].pc = "addressed"
  /\ last' = req[1]
  /\ req' = [req EXCEPT ![1].result =
               TileNamesResult(req[1].bounds, req[1].zoomLevel)]
  /\ UNCHANGED <<cache, activeRequests, lastRequestId, up, prev, quiet, call>>

NextTiles ==
  \/ \E bounds \in TileBounds, zoomLevel \in TileZooms :
        GetTileNamesCall(bounds, zoomLevel)
  \/ GetTileNamesAgain

SpecTiles == Init /\ [][NextTiles]_vars

\* ------------------------------------------------- requests racing on a tile
\* NRace handlers in progress at once on a server just started, over the
\* viewport of one tile and the viewport of that tile and its neighbour.  The
\* race is over within seconds (a cache round trip, the query): no entry
\* expires during it.  A handler has done with the cache once it has stored
\* and sleeps in trackRequest; the response that follows touches no entry and
\* is left out, so that every racing handler stays in view.
RaceSlots == 1..NRace
RaceQueries ==
  {QueryOf(b, DefaultZoom) : b \in {v \in Viewports : v.west \div Span15 = HomeX}}

InitRace ==
  /\ cache = <<>>
  /\ activeRequests = {}
  /\ lastRequestId = 0
  /\ req = [s \in RaceSlots |-> InitFrame]
  /\ up = TRUE
  /\ last = InitFrame
  /\ prev = NoPrev
  /\ quiet = TRUE
  /\ call = NoCall

NextRace ==
  \/ \E r \in RaceSlots, q \in RaceQueries : StartRequest(r, q)
  \/ \E r \in RaceSlots : \E t \in req[r].keysPending : GetTileReply(r, t)
  \/ \E r \in RaceSlots : \E k \in req[r].contentPending : GetContentReply(r, k)
  \/ \E r \in RaceSlots, S \in SUBSET geolines :
        \E rows \in Perms(S) : QueryOk(r, rows)
  \/ \E r \in RaceSlots : SetContentAck(r)
  \/ \E r \in RaceSlots : \E t \in req[r].setsPending : SetTileAck(r, t)

SpecRace == InitRace /\ [][NextRace]_vars

\* ------------------------------------------- requests below the grid zooms
\* requests for every viewport at the lowest zoom and at the last zoom without
\* a grid, arriving among the requests of the concurrent handlers
LowZoomQueries == {QueryOf(b, z) : b \in Viewports, z \in {1, NoGridZoom}}

NextShortCut ==
  \/ NextRace
  \/ \E r \in RaceSlots, q \in LowZoomQueries : StartRequest(r, q)

SpecShortCut == InitRace /\ [][NextShortCut]_vars

\* ------------------------------------------- concurrent handlers that answer
\* the concurrent handlers of NextRace, each going on to its response once the
\* timer of trackRequest fires
NextMerge ==
  \/ NextRace
  \/ \E r \in RaceSlots : WakeUp(r)

SpecMerge == InitRace /\ [][NextMerge]_vars

\* ------------------------------------------------------------ the map client
\* The page of the map: the state of the script (isShowingCache,
\* currentZoomLevel, the layers of gridLayerGroup), the zoom and position of
\* the map, and the fetches of /api/grid that have not been answered.  A layer
\* of gridLayerGroup is the L.geoJSON of one response, named by the number of
\* the fetch that brought it.
MaxFetches == 4
ClientZooms == {DefaultZoom, DefaultZoom + 1}
ClientViews == {0, 1}

\* gridLayerGroup.clearLayers()
clearLayers(c) == [c EXCEPT !.gridLayerGroup = <<>>]

\* fetch(`/api/grid?...`) sent for the map as it is
FetchGrid(c, kind, zoomChanged) ==
  [c EXCEPT !.issued = @ + 1,
            !.latestGrid = IF kind = "grid" THEN c.issued + 1 ELSE @,
            !.pending = @ \cup {[id |-> c.issued + 1, kind |-> kind,
                                 zoom |-> c.zoom, view |-> c.view,
                                 zoomChanged |-> zoomChanged]}]

\* fetchAndDisplayGeoJSON() up to its await: the layers are cleared when the
\* zoom differs from currentZoomLevel, and the fetch is sent
fetchAndDisplayGeoJSON(c) ==
  LET zoomChanged == c.zoom # c.currentZoomLevel
  IN  FetchGrid(IF zoomChanged THEN clearLayers(c) ELSE c, "grid", zoomChanged)

\* updateCacheVisualization() up to its await: it sends a fetch of /api/grid
\* of its own, whose answer it does not draw
updateCacheVisualization(c) == FetchGrid(c, "cache", FALSE)

\* updateView(): both layer groups are cleared, then the view shown is filled
updateView(c) ==
  IF c.isShowingCache THEN updateCacheVisualization(clearLayers(c))
  ELSE fetchAndDisplayGeoJSON(clearLayers(c))

ClientStep(c) ==
  /\ req' = [req EXCEPT ![1] = c]
  /\ UNCHANGED <<cache, activeRequests, lastRequestId, up, last, prev, quiet,
                 call>>

\* map.on("moveend"): the map has come to rest at zoom z and position v
MoveEnd(z, v) ==
  /\ req[1].issued < MaxFetches
  /\ LET c0 == [req[1] EXCEPT !.zoom = z, !.view = v]
         c1 == IF c0.zoom # c0.currentZoomLevel THEN clearLayers(c0) ELSE c0
     IN  ClientStep(updateView(c1))

\* map.on("zoomend"): the map has come to zoom z
ZoomEnd(z) ==
  /\ req[1].issued < MaxFetches
  /\ ClientStep(updateView(clearLayers([req[1] EXCEPT !.zoom = z])))

\* the click on the view toggle button
ToggleView ==
  /\ req[1].issued < MaxFetches
  /\ ClientStep(updateView([req[1] EXCEPT !.isShowingCache = ~@]))

\* the response of a fetch of fetchAndDisplayGeoJSON arrives: currentZoomLevel
\* is updated when the zoom had changed, and the L.geoJSON of the response is
\* added to gridLayerGroup
GridResponse(p) ==
  /\ p \in req[1].pending
  /\ p.kind = "grid"
  /\ ClientStep([req[1] EXCEPT
                   !.pending = @ \ {p},
                   !.arrived = @ \cup {p.id},
                   !.currentZoomLevel = IF p.zoomChanged THEN p.zoom ELSE @,
                   !.gridLayerGroup = Append(@, p.id)])

\* the response of the fetch of updateCacheVisualization arrives: nothing is
\* added to gridLayerGroup
CacheResponse(p) ==
  /\ p \in req[1].pending
  /\ p.kind = "cache"
  /\ ClientStep([req[1] EXCEPT !.pending = @ \ {p}, !.arrived = @ \cup {p.id}])

\* a fetch fails (or its body is not JSON): the catch block logs the error
FetchFails(p) ==
  /\ p \in req[1].pending
  /\ ClientStep([req[1] EXCEPT !.pending = @ \ {p}])

\* the page has loaded at zoom z: the grid view is shown, currentZoomLevel is
\* the zoom of the map and fetchAndDisplayGeoJSON() has been called once
LoadedClient(z) ==
  fetchAndDisplayGeoJSON(
    [pc |-> "client", zoom |-> z, view |-> 0, currentZoomLevel |-> z,
     isShowingCache |-> FALSE, gridLayerGroup |-> <<>>, pending |-> {},
     arrived |-> {}, issued |-> 0, latestGrid |-> 0])

InitClient ==
  /\ cache = <<>>
  /\ activeRequests = {}
  /\ lastRequestId = 0
  /\ \E z \in ClientZooms : req = [s \in {1} |-> LoadedClient(z)]
  /\ up = TRUE
  /\ last = InitFrame
  /\ prev = NoPrev
  /\ quiet = TRUE
  /\ call = NoCall

NextClient ==
  \/ \E z \in ClientZooms, v \in ClientViews : MoveEnd(z, v)
  \/ \E z \in ClientZooms : ZoomEnd(z)
  \/ ToggleView
  \/ \E p \in req[1].pending : GridResponse(p)
  \/ \E p \in req[1].pending : CacheResponse(p)
  \/ \E p \in req[1].pending : FetchFails(p)

SpecClient == InitClient /\ [][NextClient]_vars

\* ------------------------------------------------ the store step on its own
RECURSIVE StoreTiles(_, _, _)
\* setCache(createTileKey(tile), contentKey, 3600) for the tiles of ts, stored
\* by memcached in the order of ts
StoreTiles(c, ts, contentKey) ==
  IF ts = <<>> THEN c
  ELSE StoreTiles(CacheSet(c, createTileKey(Head(ts)), contentKey, TileTTL),
                  Tail(ts), contentKey)

\* the store step with a key that carries a version, new at every store (the
\* "timestamp for versioning" of the comment in createContentKey); the version
\* is taken from the number of entries in the cache
StoreStepVersioned(c, features, ts) ==
  LET contentKey == [ns |-> "content",
                     id |-> createContentKey(features).id
                              \o <<Cardinality(DOMAIN c)>>]
  IN  StoreTiles(CacheSet(c, contentKey, JsonFeatures(features), ContentTTL),
                 ts, contentKey)

\* the store step of getGridLines on cache c: the content entry of the
\* features, then the tile entry of every uncached tile, the tile writes
\* reaching memcached in the order ts
StoreStep(c, features, ts) ==
  LET contentKey == createContentKey(features)
  IN  StoreTiles(CacheSet(c, contentKey, JsonFeatures(features), ContentTTL),
                 ts, contentKey)

\* the tiles of the widest viewport at the fallback zoom
StoreTileNames ==
  {<<DefaultZoom, HomeX + i, HomeY>> : i \in 0..2}

\* the rows the datastore has for the envelope of a set of uncached tiles
StoreRows(miss) ==
  SelectRows(gridTypeOf(DefaultZoom), uncachedBoundsOf(miss))

\* the features getGridLines builds from `rows`
BatchOf(rows) ==
  [i \in 1..Len(rows) |-> Feature(rows[i], gridTypeOf(DefaultZoom))]

\* the store step for the uncached tiles of ts and the rows of their envelope;
\* the cache as it was before is kept in `last`
StoreOnce(ts, rows) ==
  /\ cache' = StoreStep(cache, BatchOf(rows), ts)
  /\ last' = [pc |-> "before", cache |-> cache]
  /\ req' = [req EXCEPT ![1] =
               [pc |-> "stored", features |-> BatchOf(rows), tiles |-> ts,
                first |-> ts]]
  /\ UNCHANGED <<activeRequests, lastRequestId, up, prev, quiet, call>>

\* the same store step once more, its tile writes in the order ts
StoreAgain(ts) ==
  /\ req[1].pc = "stored"
  /\ Range(ts) = Range(req[1].tiles)
  /\ Len(ts) = Len(req[1].tiles)
  /\ cache' = StoreStep(cache, req[1].features, ts)
  /\ req' = [req EXCEPT ![1].pc = "storedAgain", ![1].tiles = ts]
  /\ UNCHANGED <<activeRequests, lastRequestId, up, last, prev, quiet, call>>

NextStore ==
  \/ \E miss \in (SUBSET StoreTileNames) \ {{}} :
       \E ts \in Perms(miss), rows \in Perms(StoreRows(miss)) : StoreOnce(ts, rows)
  \/ /\ req[1].pc = "stored"
     /\ \E ts \in Perms(Range(req[1].tiles)) : StoreAgain(ts)

SpecStore == Init /\ [][NextStore]_vars

\* ============================================================== properties
\* the frames of the handlers in progress and of the one that has just finished
Frames == {req[r] : r \in Slots} \cup {last}

\* frame f answered a request that repeats, undisturbed, the request answered
\* just before it (same bounds and zoom, no other handler, no entry expired)
Repeats(f) ==
  /\ f.pc = "done"
  /\ f.base.fresh
  /\ f.base.bounds = f.bounds
  /\ f.base.rawZoom = f.rawZoom

\* the tiles of f found in the tile index whose content entry was not found
DeadIndexTiles(f) ==
  {t \in cachedTilesOf(f) : ~f.cachedContents[f.cachedContentKeys[t]].hit}

\* the lines of the datastore that cross tile t, as a client receives them
LinesOf(t, zoomLevel) ==
  {JsonFeature(Feature(row, gridTypeOf(zoomLevel))) :
     row \in SelectRows(gridTypeOf(zoomLevel), uncachedBoundsOf({t}))}

\* C1: a request whose datastore query failed ends by sending a response with
\* an error status and an empty feature list.
QueryFailureAnswered ==
  \A f \in Frames :
    (f.error = "query" /\ ~InProgress(f)) =>
      (f.resp.status >= 400 /\ f.resp.features = <<>>)

\* C2: the id of every request that called trackRequest and has finished is
\* out of the in-flight set: every id in flight belongs to a handler in progress.
ReleasedOnEveryPath ==
  \A id \in activeRequests :
    \E r \in Slots : InProgress(req[r]) /\ req[r].requestId = id

\* C3: a tile with a live index entry whose content entry is gone is treated
\* as a miss: the request queries the datastore and the tile's lines are in
\* its response.
DeadIndexRefetched ==
  (last.pc = "done" /\ DeadIndexTiles(last) # {}) =>
    /\ last.queries > 0
    /\ \A t \in DeadIndexTiles(last) :
         LinesOf(t, last.zoomLevel) \subseteq Range(last.resp.features)

\* C4: the same request made twice in sequence, with no entry expiring in
\* between, is answered with the same set of features, and the second answer
\* reports cacheInfo.queried = 0.
RepeatIsIdempotent ==
  Repeats(last) =>
    /\ Range(last.resp.features) = last.base.features
    /\ last.resp.metadata.cacheInfo.queried = 0

\* C5: the answer to a request repeated immediately after an identical
\* successful one counts every tile of the request as cached
\* (tilesInZoom.cached = tilesInZoom.total = the number of tiles) and reports
\* queried = 0.
RepeatCountsEveryTileCached ==
  Repeats(last) =>
    LET info == last.resp.metadata.cacheInfo
    IN  /\ info.tilesInZoom.cached = info.tilesInZoom.total
        /\ info.tilesInZoom.total =
             (IF last.zoomLevel <= NoGridZoom THEN 0 ELSE Len(tileNamesOf(last)))
        /\ info.queried = 0
        /\ last.queries = 0

\* a repeated request over two tiles that carry a line has been answered
RepeatOverTwoTiles ==
  /\ Repeats(last)
  /\ last.resp.metadata.cacheInfo.tilesInZoom.total = 2
  /\ last.resp.metadata.cacheInfo.cached > 0

\* C6: a request with zoom > 10 sends at most one datastore query; once it has
\* finished it has sent exactly one if some tile missed the tile index and
\* none if every tile hit; with no tile hit it reports cacheInfo.cached = 0.
OneQueryOnMiss ==
  \A f \in Frames :
    (f.pc # "idle" /\ f.zoomLevel > NoGridZoom) =>
      /\ f.queries <= 1
      /\ Finished(f) => (f.queries = 1 <=> uncachedTilesOf(f) # {})
      /\ (f.pc = "done" /\ cachedTilesOf(f) = {}) =>
           f.resp.metadata.cacheInfo.cached = 0

\* a request with one tile hit and one tile missed has been answered after
\* its single query
PartialHitAnswered ==
  /\ last.pc = "done"
  /\ cachedTilesOf(last) # {}
  /\ uncachedTilesOf(last) # {}
  /\ last.queries = 1

\* C7: a request whose zoom parameter is a number from 0 to 10 is answered
\* with an empty feature list.
LowZoomIsEmpty ==
  (last.pc = "done" /\ last.rawZoom \in 0..NoGridZoom) =>
    last.resp.features = <<>>

\* C8: only a request with a tile that missed the tile index calls
\* trackRequest; a request whose tiles all hit holds no id, is not delayed and
\* reports currentDelay = 0 and activeRequests = 0.
ThrottleOnlyOnMiss ==
  \A f \in Frames :
    /\ (f.requestId # 0 \/ f.pc = "sleep" \/ f.delay # 0) =>
         uncachedTilesOf(f) # {}
    /\ (f.pc = "done" /\ uncachedTilesOf(f) = {}) =>
         /\ f.requestId \notin activeRequests
         /\ f.resp.metadata.currentDelay = 0
         /\ f.resp.metadata.activeRequests = 0

\* a request whose tiles all hit, with features cached, has been answered
FullHitAnswered ==
  /\ last.pc = "done"
  /\ last.zoomLevel > NoGridZoom
  /\ cachedTilesOf(last) # {}
  /\ uncachedTilesOf(last) = {}
  /\ last.resp.features # <<>>

\* C9: a request with zoom > 10 and a tile that missed the tile index has
\* called trackRequest (and was delayed) by the time it is answered, whatever
\* the number of rows the datastore returned.
MissIsThrottled ==
  (last.pc = "done" /\ last.zoomLevel > NoGridZoom /\ uncachedTilesOf(last) # {})
    => (last.requestId # 0 /\ last.delay > 0)

\* C10: trackRequest rejects no caller: a call is possible whatever the
\* number of ids in flight (below the bound of the model), and every call
\* issues the next id, adds it to the in-flight set and hands it back after a
\* delay of at most maxDelay.
AdmitNeverRejects ==
  /\ [](lastRequestId < MaxAdmits => ENABLED Admit)
  /\ [][lastRequestId' # lastRequestId =>
          /\ lastRequestId' = lastRequestId + 1
          /\ activeRequests' = activeRequests \cup {lastRequestId'}
          /\ call'.requestId = lastRequestId'
          /\ call'.activeCount = Cardinality(activeRequests')
          /\ call'.delay <= maxDelay]_vars

\* a caller admitted with nine ids in flight is given the longest delay
AdmittedAtTheCap ==
  /\ call.requestId = lastRequestId
  /\ call.activeCount = MaxAdmits
  /\ Cardinality(activeRequests) = MaxAdmits
  /\ call.delay = maxDelay

\* C11: the delay trackRequest applies is min(100 * 2^(n - 1), 10000) ms,
\* where n >= 1 is the size of the in-flight set right after the caller's own
\* id has been added, and the activeCount handed back is that n.
DelayIsCappedPowerOfTwo ==
  [][lastRequestId' # lastRequestId =>
       LET n == Cardinality(activeRequests')
       IN  /\ lastRequestId' \in activeRequests'
           /\ n >= 1
           /\ call'.activeCount = n
           /\ call'.delay = (IF 100 * 2^(n - 1) <= 10000 THEN 100 * 2^(n - 1)
                             ELSE 10000)]_vars

\* a caller admitted as the third in flight was given 400 ms
ThirdInFlightWaits400 ==
  /\ call.requestId = lastRequestId
  /\ call.activeCount = 3
  /\ Cardinality(activeRequests) = 3
  /\ call.delay = 400

\* C12: calls of trackRequest with no completion in between are given
\* non-decreasing delays in the order of the calls, each at most 10000 ms.
\* (No completion since the previous call: the in-flight set still has the
\* size that call observed.)
DelaysNeverDecreaseWithoutRelease ==
  [][lastRequestId' # lastRequestId =>
       /\ call'.delay <= maxDelay
       /\ (call.requestId = lastRequestId /\ call.requestId # 0
             /\ Cardinality(activeRequests) = call.activeCount)
            => call'.delay >= call.delay]_vars

\* all the calls the model allows were made with no completion at all, and
\* the last one was given the cap
AllAdmittedInARow ==
  /\ lastRequestId = MaxAdmits
  /\ activeRequests = 1..MaxAdmits
  /\ call.requestId = MaxAdmits
  /\ call.delay = maxDelay

\* C13: once every admitted request has been completed (the in-flight set is
\* empty), the next call of trackRequest is given delay 0.
AdmitAfterDrainIsFree ==
  (call.requestId > 1 /\ call.activeCount = 1) => call.delay = 0

\* C14: completeRequest(requestId) removes exactly that id from the in-flight
\* set and leaves the other ids and the id counter as they are; for an id not
\* in the set nothing changes; the in-flight set an ensuing trackRequest finds
\* is smaller by one after the completion of an id in flight.
ReleaseRemovesExactlyOne ==
  [][\A id \in 1..MaxAdmits :
       Release(id) =>
         /\ activeRequests' = activeRequests \ {id}
         /\ \A other \in activeRequests \ {id} : other \in activeRequests'
         /\ lastRequestId' = lastRequestId
         /\ id \notin activeRequests => UNCHANGED vars
         /\ id \in activeRequests =>
              Cardinality(activeRequests') + 1 = Cardinality(activeRequests)]_vars

\* the second of three ids was completed alone, and the caller admitted next
\* was counted third in flight, not fourth
MiddleReleasedThenAdmitted ==
  /\ lastRequestId = 4
  /\ activeRequests = {1, 3, 4}
  /\ call.requestId = 4
  /\ call.activeCount = 3

\* the tiles of f whose own cache operation was answered without error when
\* the operation of another tile failed
SparedTiles(f) ==
  IF f.error = "tileGet" THEN DOMAIN f.cachedContentKeys
  ELSE IF f.error = "tileSet" THEN Range(tileNamesOf(f)) \ f.setsPending
  ELSE {}

\* C15: a request whose cache reads fail (memcached unavailable) is not
\* failed: its tiles count as misses, the datastore is queried and the
\* request is answered with status 200.
CacheDownStillAnswers ==
  \A f \in Frames :
    (f.error \in {"tileGet", "contentGet"} /\ ~InProgress(f)) =>
      (f.pc = "done" /\ f.resp.status = 200 /\ f.queries = 1)

\* C16: when the cache operation of one tile of a request fails, the lines of
\* the other tiles of that request are still in its response.
TileFailureSparesOthers ==
  (last.error \in {"tileGet", "tileSet"}
     /\ \E u \in SparedTiles(last) : LinesOf(u, last.zoomLevel) # {})
    => /\ last.pc = "done"
       /\ \A u \in SparedTiles(last) :
            LinesOf(u, last.zoomLevel) \subseteq Range(last.resp.features)

\* this step stores an entry in the cache (a new key, a new value, or a
\* lifetime started afresh)
CacheWritten ==
  \E k \in DOMAIN cache' :
    \/ k \notin DOMAIN cache
    \/ cache'[k].val # cache[k].val
    \/ cache'[k].ttl > cache[k].ttl

\* C17: a request whose datastore query fails writes nothing to the cache: an
\* entry is written only by a handler whose query has been answered, the
\* failure ends the handler, and the step of the failure leaves every entry
\* as it is.
QueryFailureWritesNothing ==
  /\ [](\A f \in Frames :
          f.error = "query" =>
            (f.pc \in {"rejected", "aborted"} /\ f.queries = 1
               /\ f.features = <<>> /\ f.setsPending = {}))
  /\ [][/\ CacheWritten =>
             \E r \in Slots : /\ req[r].pc \in {"setContent", "setTiles"}
                              /\ req[r].queries = 1
                              /\ req[r].error = "none"
        /\ \A r \in Slots :
             (req[r].pc = "query" /\ req'[r].pc = "idle"
                /\ last'.error = "query") => cache' = cache]_vars

\* a request with one tile cached and one not had its query fail, with
\* entries in the cache
FailedBesideCachedTile ==
  /\ last.error = "query"
  /\ last.pc = "rejected"
  /\ cachedTilesOf(last) # {}
  /\ uncachedTilesOf(last) # {}
  /\ cache # <<>>

GridPolicyTable ==
  req[1].pc = "returned" =>
    LET z == req[1].zoomLevel
        fs == req[1].features
        Drawn(gridType, dash) ==
          /\ gridTypeOf(z) = gridType
          /\ \A i \in 1..Len(fs) :
               /\ fs[i].properties.dashArray = dash
               /\ fs[i].properties.weight = 2
               /\ fs[i].properties.opacity = "0.7"
               /\ ("dashArray" \in DOMAIN JsonFeature(fs[i]).properties)
                    = (dash # Undefined)
    IN  /\ z > 17 => Drawn("50m", "10, 10")
        /\ (z > 13 /\ z <= 17) => Drawn("100m", "15, 10")
        /\ (z > 10 /\ z <= 13) => Drawn("500m", Undefined)
        /\ z <= 10 => fs = <<>>
        /\ Cardinality({k \in 1..4 :
                          \/ k = 1 /\ z > 17
                          \/ k = 2 /\ z > 13 /\ z <= 17
                          \/ k = 3 /\ z > 10 /\ z <= 13
                          \/ k = 4 /\ z <= 10}) = 1

\* two lines were drawn at zoom 17, the upper end of the medium range
DrawnAtUpperThreshold ==
  /\ req[1].pc = "returned"
  /\ req[1].zoomLevel = 17
  /\ Len(req[1].features) = 2
  /\ req[1].features[1].properties.dashArray = "15, 10"

\* the five parameters of frame f: what was sent, what the handler uses, and
\* the fallback of the parameter
ParamsOf(f) ==
  { [raw |-> f.rawBounds.north, used |-> f.bounds.north, fallback |-> DefaultNorth],
    [raw |-> f.rawBounds.south, used |-> f.bounds.south, fallback |-> DefaultSouth],
    [raw |-> f.rawBounds.east, used |-> f.bounds.east, fallback |-> DefaultEast],
    [raw |-> f.rawBounds.west, used |-> f.bounds.west, fallback |-> DefaultWest],
    [raw |-> f.rawZoom, used |-> f.zoomLevel, fallback |-> DefaultZoom] }

\* the lines a request for (bounds, zoomLevel) is answered with by a server
\* whose cache is empty
FreshAnswer(bounds, zoomLevel) ==
  LET tiles == Range(getTileNames(bounds, zoomLevel))
      gridType == gridTypeOf(zoomLevel)
  IN  IF zoomLevel <= NoGridZoom \/ tiles = {} THEN {}
      ELSE {JsonFeature(Feature(row, gridType)) :
              row \in SelectRows(gridType, uncachedBoundsOf(tiles))}

\* no handler has failed, and an answered request was answered with status
\* 200 and the lines of the bounds and zoom the handler used
AnsweredAsIfSupplied ==
  \A f \in Frames :
    /\ f.pc # "rejected" /\ f.error = "none"
    /\ f.pc = "done" =>
         /\ f.resp.status = 200
         /\ Range(f.resp.features) = FreshAnswer(f.bounds, f.zoomLevel)

EveryRequestCompletes ==
  /\ \A r \in Slots : InProgress(req[r]) ~> ~InProgress(req[r])
  /\ [][\A r \in Slots :
          (InProgress(req[r]) /\ ~InProgress(req'[r]))
            => (last'.pc = "done" /\ last'.resp.status # 0)]_vars

\* frame f has sent its datastore query (and, in the caching revision, may be
\* storing what the query returned)
Fetching(f) == f.pc \in {"query", "setContent", "setTiles", "legacyQuery"}

\* C22: in a request with a tile that missed, the throttle comes before the
\* fetch: when the datastore query is sent, and while its result is stored,
\* trackRequest has already admitted the request and its delay is over.
ThrottleBeforeFetch ==
  \A r \in Slots :
    Fetching(req[r]) =>
      /\ req[r].requestId # 0
      /\ req[r].delay = trackDelay(req[r].activeCount)

\* the frame of slot r after a step (in `last` when the step ended the handler)
FrameAfter(r) == IF req'[r].pc = "idle" THEN last' ELSE req'[r]

\* C23: once every tile read is answered, each tile of the request (listed
\* once) is in exactly one of cachedTiles and uncachedTiles; a tile is put in
\* uncachedTiles exactly when memcached has no entry for its key at the reply,
\* and in cachedTiles with the key stored there; and in the response
\* tilesInZoom.cached plus the number of uncached tiles is tilesInZoom.total.
LookupPartitionsTiles ==
  /\ [](\A f \in Frames :
          /\ (f.pc # "idle" /\ f.keysPending = {} /\ f.zoomLevel > NoGridZoom) =>
               /\ cachedTilesOf(f) \cup uncachedTilesOf(f) = Range(tileNamesOf(f))
               /\ cachedTilesOf(f) \cap uncachedTilesOf(f) = {}
               /\ Cardinality(Range(tileNamesOf(f))) = Len(tileNamesOf(f))
          /\ f.pc = "done" =>
               f.resp.metadata.cacheInfo.tilesInZoom.cached
                 + Cardinality(uncachedTilesOf(f))
                 = f.resp.metadata.cacheInfo.tilesInZoom.total)
  /\ [][\A r \in Slots : \A t \in req[r].keysPending :
          (req[r].pc = "lookup" /\ t \in DOMAIN FrameAfter(r).cachedContentKeys) =>
            /\ (t \in uncachedTilesOf(FrameAfter(r))) = ~CacheHas(createTileKey(t))
            /\ CacheHas(createTileKey(t)) =>
                 /\ t \in cachedTilesOf(FrameAfter(r))
                 /\ FrameAfter(r).cachedContentKeys[t] = cache[createTileKey(t)].val]_vars

\* a request over two tiles, one in the tile index and one not, was answered
\* with tilesInZoom.cached = 1 and tilesInZoom.total = 2
LookupSplitTwoTiles ==
  /\ last.pc = "done"
  /\ Cardinality(cachedTilesOf(last)) = 1
  /\ Cardinality(uncachedTilesOf(last)) = 1
  /\ last.resp.metadata.cacheInfo.tilesInZoom = [cached |-> 1, total |-> 2]

\* every entry of the cache other than those of `keys` is after the step as
\* it was before
OnlyWritten(keys) ==
  /\ DOMAIN cache' \ keys = DOMAIN cache \ keys
  /\ \A k \in DOMAIN cache \ keys : cache'[k] = cache[k]

\* C24: after its query has been answered, a request with uncached tiles
\* stores one content entry, key createContentKey(features) -> features, with
\* 300 s to live, then one tile entry for every uncached tile, each holding
\* that same key with 3600 s to live; getGridLines returns only when all of
\* them are stored, and the content entry has less time left than any tile
\* entry written with it.
StoreWritesBatch ==
  [][\A r \in Slots :
       LET f == req[r]
           g == FrameAfter(r)
           contentKey == createContentKey(f.features)
       IN  /\ (f.pc = "query" /\ g.pc = "setContent") =>
                (uncachedTilesOf(f) # {} /\ cache' = cache)
           /\ (f.pc = "setContent" /\ g.pc = "setTiles") =>
                /\ cache'[contentKey] =
                     [val |-> JsonFeatures(f.features), ttl |-> ContentTTL]
                /\ OnlyWritten({contentKey})
                /\ g.setsPending = uncachedTilesOf(f)
                /\ g.setsPending # {}
           /\ (f.pc = "setTiles" /\ g.pc # "aborted" /\ g # f) =>
                \E t \in f.setsPending :
                  /\ g.setsPending = f.setsPending \ {t}
                  /\ cache'[createTileKey(t)] =
                       [val |-> contentKey, ttl |-> TileTTL]
                  /\ OnlyWritten({createTileKey(t)})
                  /\ CacheHas(contentKey) =>
                       cache'[contentKey].ttl < cache'[createTileKey(t)].ttl
                  /\ (g.pc # "setTiles") = (g.setsPending = {})]_vars

\* a batch of two lines has just been stored for two uncached tiles: both tile
\* entries hold the key of the batch with 3600 s to live, and the content
\* entry has 300 s to live
BatchOfTwoStored ==
  \E r \in Slots :
    LET contentKey == createContentKey(req[r].features)
    IN  /\ req[r].pc = "sleep"
        /\ Len(req[r].features) = 2
        /\ Cardinality(uncachedTilesOf(req[r])) = 2
        /\ CacheHas(contentKey)
        /\ cache[contentKey].ttl = ContentTTL
        /\ cache[contentKey].val = JsonFeatures(req[r].features)
        /\ \A t \in uncachedTilesOf(req[r]) :
             /\ CacheHas(createTileKey(t))
             /\ cache[createTileKey(t)] = [val |-> contentKey, ttl |-> TileTTL]

\* this step stores the tile-index entry of key k (a new entry, a new value,
\* or a lifetime started afresh)
TileWritten(k) ==
  /\ k.ns = "tile"
  /\ k \in DOMAIN cache'
  /\ \/ k \notin DOMAIN cache
     \/ cache'[k].val # cache[k].val
     \/ cache'[k].ttl > cache[k].ttl

\* C25: a tile-index entry is created or overwritten only by a request whose
\* query has been answered and whose lookup missed that tile; a request
\* leaves the entries of the tiles it found in the index as they are.
TileIndexWrittenOnlyForMisses ==
  [][\A k \in DOMAIN cache' :
       TileWritten(k) =>
         \E r \in Slots :
           /\ req[r].pc = "setTiles"
           /\ req[r].queries = 1
           /\ req[r].error = "none"
           /\ k.id \in uncachedTilesOf(req[r])
           /\ k.id \notin cachedTilesOf(req[r])
           /\ k.id \in req[r].setsPending]_vars

\* a request that found one tile in the index and missed another has stored
\* the entry of the missed tile; the entry of the tile it found has aged
\* since it was written and was not written again
HitTileLeftAsItWas ==
  \E f \in Frames :
    /\ f.pc \in {"sleep", "done"}
    /\ f.queries = 1
    /\ \E t \in cachedTilesOf(f) :
         /\ CacheHas(createTileKey(t))
         /\ cache[createTileKey(t)].ttl = TileTTL - TimeStep
    /\ \E u \in uncachedTilesOf(f) :
         /\ CacheHas(createTileKey(u))
         /\ cache[createTileKey(u)].ttl = TileTTL

\* the calls of getTileNames in the state: the latest and the one before it
TileCalls == {f \in {req[1], last} : f.pc = "addressed"}

\* C26: when the north-west corner is in tile (x0, y0) and the south-east
\* corner in tile (x1, y1) with x0 <= x1 and y0 <= y1, getTileNames returns
\* the (x1 - x0 + 1) * (y1 - y0 + 1) tiles of the rectangle, each once, row by
\* row from y0 and in each row from x0; and two calls with the same arguments
\* return the same list.
TilesAreTheRectangleRowMajor ==
  /\ \A f \in TileCalls :
       LET nw == calculateOSMTile(f.bounds.north, f.bounds.west, f.zoomLevel)
           se == calculateOSMTile(f.bounds.south, f.bounds.east, f.zoomLevel)
           w == se.tileX - nw.tileX + 1
           h == se.tileY - nw.tileY + 1
           tiles == f.result.tiles
       IN  (w >= 1 /\ h >= 1) =>
             /\ Len(tiles) = w * h
             /\ f.result.count = w * h
             /\ \A i \in 1..Len(tiles) :
                  tiles[i] = <<f.zoomLevel, nw.tileX + ((i - 1) % w),
                               nw.tileY + ((i - 1) \div w)>>
             /\ Cardinality(Range(tiles)) = w * h
             /\ Range(tiles) =
                  {<<f.zoomLevel, x, y>> : x \in nw.tileX..se.tileX,
                                           y \in nw.tileY..se.tileY}
  /\ \A f, g \in TileCalls :
       (f.bounds = g.bounds /\ f.zoomLevel = g.zoomLevel) => f.result = g.result

\* getTileNames returned the eighteen tiles of a rectangle of three rows and
\* six columns, and the call before it had the same arguments
RectangleOfEighteenTwice ==
  /\ req[1].pc = "addressed" /\ last.pc = "addressed"
  /\ Len(req[1].result.tiles) = 18
  /\ req[1].result.bounds.y.max - req[1].result.bounds.y.min = 2
  /\ last.bounds = req[1].bounds /\ last.zoomLevel = req[1].zoomLevel

\* the bounds of call f are a single point
Collapsed(f) == f.bounds.north = f.bounds.south /\ f.bounds.east = f.bounds.west

\* C27 as stated: for bounds that are a single point getTileNames returns no
\* tile.
PointBoundsGiveNoTile ==
  \A f \in TileCalls : Collapsed(f) => f.result.tiles = <<>>

\* C27, amended: for bounds that are a single point getTileNames returns one
\* tile, the tile the point is in; it returns no tile exactly when the tile of
\* the south-east corner is west or north of the tile of the north-west corner.
PointBoundsGiveOneTile ==
  \A f \in TileCalls :
    LET nw == calculateOSMTile(f.bounds.north, f.bounds.west, f.zoomLevel)
        se == calculateOSMTile(f.bounds.south, f.bounds.east, f.zoomLevel)
    IN  /\ Collapsed(f) =>
             /\ f.result.tiles = <<(<<f.zoomLevel, nw.tileX, nw.tileY>>)>>
             /\ f.result.count = 1
        /\ (f.result.tiles = <<>>) = (se.tileX < nw.tileX \/ se.tileY < nw.tileY)

\* getTileNames was called with a single point at zoom 16 and returned one tile
PointAddressed ==
  /\ req[1].pc = "addressed"
  /\ Collapsed(req[1])
  /\ req[1].zoomLevel = DefaultZoom + 1
  /\ Len(req[1].result.tiles) = 1

\* C28: a request that had to query is answered only after its content entry
\* and the tile entry of every one of its uncached tiles have been stored:
\* a write is taken off the pending ones only by memcached storing it, and the
\* handler sleeps and responds only with no write pending.
WritesDoneBeforeResponse ==
  /\ [](\A f \in Frames :
          (f.pc \in {"returned", "sleep", "done"} /\ f.queries = 1) =>
            f.setsPending = {})
  /\ [][\A r \in Slots :
          LET f == req[r]
              g == FrameAfter(r)
              contentKey == createContentKey(f.features)
          IN  /\ (InProgress(f) /\ g.pc = "done" /\ g.queries = 1) =>
                   /\ f.pc \in {"sleep", "setTiles"}
                   /\ f.pc = "setTiles" => Cardinality(f.setsPending) = 1
              /\ (f.pc = "query" /\ g # f /\ g.pc \notin {"rejected", "aborted"}) =>
                   g.pc = "setContent"
              /\ (f.pc = "setContent" /\ g # f /\ g.pc \notin {"rejected", "aborted"}) =>
                   /\ g.pc = "setTiles"
                   /\ g.setsPending = uncachedTilesOf(f)
                   /\ contentKey \in DOMAIN cache'
                   /\ cache'[contentKey].ttl = ContentTTL
              /\ (f.pc = "setTiles" /\ g.pc # "aborted") =>
                   \A t \in f.setsPending \ g.setsPending :
                     /\ createTileKey(t) \in DOMAIN cache'
                     /\ cache'[createTileKey(t)] =
                          [val |-> contentKey, ttl |-> TileTTL]]_vars

\* a request over two uncached tiles has been answered, and the content entry
\* and both tile entries it wrote are in the cache
AnsweredAfterBothTileWrites ==
  /\ last.pc = "done"
  /\ last.queries = 1
  /\ Cardinality(uncachedTilesOf(last)) = 2
  /\ CacheHas(createContentKey(last.features))
  /\ \A t \in uncachedTilesOf(last) :
       /\ CacheHas(createTileKey(t))
       /\ cache[createTileKey(t)].val = createContentKey(last.features)

\* in this step the handler of slot r has its write of tile t stored
WritesTile(r, t) ==
  /\ req[r].pc = "setTiles"
  /\ t \in req[r].setsPending
  /\ t \notin FrameAfter(r).setsPending

\* the handlers whose write of tile t has been stored
WritersOf(t) ==
  {p \in RaceSlots : /\ req[p].pc \in {"setTiles", "sleep"}
                     /\ t \in uncachedTilesOf(req[p])
                     /\ t \notin req[p].setsPending}

\* C29: when handlers race on a tile that each of them missed, each of them
\* queries it and each write of the tile entry replaces what is there with the
\* writer's fingerprint, whoever wrote before, and nothing else changes the
\* entry: it holds the fingerprint of the latest writer.  A tile entry holds
\* the fingerprint of a handler that wrote it, that fingerprint has a content
\* entry, and once two handlers that missed the same tile have both stored,
\* both have queried and the tile has its entry.
LastWriteWins ==
  /\ [](\A k \in DOMAIN cache :
          k.ns = "tile" =>
            /\ cache[k].val \in DOMAIN cache
            /\ cache[k].val \in
                 {createContentKey(req[p].features) : p \in WritersOf(k.id)})
  /\ [](\A r, s \in RaceSlots :
          (r # s /\ req[r].pc = "sleep" /\ req[s].pc = "sleep") =>
            \A t \in uncachedTilesOf(req[r]) \cap uncachedTilesOf(req[s]) :
              /\ req[r].queries = 1 /\ req[s].queries = 1
              /\ {r, s} \subseteq WritersOf(t)
              /\ CacheHas(createTileKey(t)))
  /\ [][/\ \A r \in RaceSlots : \A t \in req[r].setsPending :
             WritesTile(r, t) =>
               cache'[createTileKey(t)] =
                 [val |-> createContentKey(req[r].features), ttl |-> TileTTL]
        /\ \A k \in DOMAIN cache :
             (k.ns = "tile" /\ (k \notin DOMAIN cache' \/ cache'[k] # cache[k])) =>
               \E r \in RaceSlots : WritesTile(r, k.id)]_vars

\* two handlers that both missed the same tile and both queried it, with
\* different fingerprints, have both stored; the entry of the tile holds the
\* fingerprint of the first slot's handler
RaceOverSharedTile ==
  /\ req[1].pc = "sleep" /\ req[2].pc = "sleep"
  /\ req[1].queries = 1 /\ req[2].queries = 1
  /\ createContentKey(req[1].features) # createContentKey(req[2].features)
  /\ \E t \in uncachedTilesOf(req[1]) \cap uncachedTilesOf(req[2]) :
       cache[createTileKey(t)].val = createContentKey(req[1].features)

\* the associations of cache c: what each key maps to, lifetimes left aside
AssocOf(c) == [k \in DOMAIN c |-> c[k].val]

OuterBoxOf(tiles) ==
  LET z == (CHOOSE t \in tiles : TRUE)[1]
      xs == {t[2] : t \in tiles}
      ys == {t[3] : t \in tiles}
  IN  [west |-> SetMin(xs) * TileSpan(z), east |-> (SetMax(xs) + 1) * TileSpan(z),
       north |-> SetMin(ys) * TileSpan(z), south |-> (SetMax(ys) + 1) * TileSpan(z)]

\* C31: the envelope of the query is the outer box of the uncached tiles, from
\* their least x and y to their greatest x + 1 and y + 1: it covers every
\* uncached tile, no cached tile widens it, and the rows fetched are the
\* lines of the datastore that meet that box.
EnvelopeIsBoxOfMissTiles ==
  \A r \in DOMAIN req :
    LET f == req[r]
        miss == uncachedTilesOf(f)
        env == uncachedBoundsOf(miss)
    IN  /\ f.pc = "query" =>
             /\ miss # {}
             /\ env = OuterBoxOf(miss)
             /\ \A t \in miss :
                  /\ env.west <= tile2LatLng(t[1], t[2], t[3]).lng
                  /\ env.north <= tile2LatLng(t[1], t[2], t[3]).lat
                  /\ env.east >= tile2LatLng(t[1], t[2] + 1, t[3] + 1).lng
                  /\ env.south >= tile2LatLng(t[1], t[2] + 1, t[3] + 1).lat
        /\ f.pc \in {"setContent", "setTiles", "sleep"} =>
             {f.features[i].properties.name : i \in 1..Len(f.features)}
               = {row.name : row \in SelectRows(gridTypeOf(f.zoomLevel),
                                                OuterBoxOf(miss))}

\* a request with its west tile cached and its east tile not has fetched the
\* one line of the east tile and not the line of the west tile
EnvelopeLeavesHitTileOut ==
  \E r \in DOMAIN req :
    /\ req[r].pc = "setContent"
    /\ cachedTilesOf(req[r]) # {}
    /\ uncachedTilesOf(req[r]) # {}
    /\ Len(req[r].features) = 1
    /\ req[r].features[1].properties.name = "L2"

\* C32: the ids in flight are among the ids issued (1..lastRequestId), the
\* counter never decreases, and each call of trackRequest issues the id after
\* the counter, greater than every id issued before and held by no request in
\* flight; the in-flight set grows by that id and by nothing else.
IdsIncreaseAndAreNeverReused ==
  /\ [](activeRequests \subseteq 1..lastRequestId)
  /\ [][/\ lastRequestId' >= lastRequestId
        /\ (call' # call \/ lastRequestId' # lastRequestId) =>
             /\ lastRequestId' = lastRequestId + 1
             /\ call'.requestId = lastRequestId'
             /\ call'.requestId \notin activeRequests
             /\ \A id \in activeRequests : id < call'.requestId
             /\ activeRequests' = activeRequests \cup {call'.requestId}
        /\ activeRequests' \ activeRequests \subseteq {lastRequestId + 1}]_vars

\* four ids were issued and the first and third given back: the request
\* admitted last holds id 4, not one of the ids that are free again
IdsNotReusedAfterRelease ==
  /\ lastRequestId = 4
  /\ activeRequests = {2, 4}
  /\ call.requestId = 4

TileContentIsStable ==
  [][\A k \in DOMAIN cache :
       (/\ k.ns = "tile"
        /\ cache[k].val \in DOMAIN cache
        /\ ~TileWritten(k)
        /\ k \in DOMAIN cache'
        /\ cache[k].val \in DOMAIN cache') =>
          cache'[cache[k].val].val = cache[cache[k].val].val]_vars

\* C35: the feature list of a response, cached features followed by queried
\* features, holds each line of the datastore at most once.
MergedListHasNoDuplicate ==
  last.pc = "done" =>
    \A i, j \in 1..Len(last.resp.features) :
      i # j => last.resp.features[i].properties.name
                 # last.resp.features[j].properties.name

\* C36: within a store the content entry is stored before any tile entry that
\* holds its key: a handler sends its tile writes only in the step in which
\* its content entry is stored, which writes no tile entry; in the step that
\* stores a tile entry the key it holds already has its content entry; so
\* every tile entry holds a key that has a content entry, and every key a
\* handler has read from the tile index is found when it reads the content.
ContentStoredBeforeIndex ==
  /\ [](\A k \in DOMAIN cache : k.ns = "tile" => cache[k].val \in DOMAIN cache)
  /\ [](\A r \in DOMAIN req :
          /\ \A t \in cachedTilesOf(req[r]) :
               req[r].cachedContentKeys[t] \in DOMAIN cache
          /\ \A k \in DOMAIN req[r].cachedContents :
               req[r].cachedContents[k].hit)
  /\ [][/\ \A k \in DOMAIN cache' :
             TileWritten(k) =>
               /\ cache'[k].val \in DOMAIN cache
               /\ \E r \in DOMAIN req :
                    /\ WritesTile(r, k.id)
                    /\ cache'[k].val = createContentKey(req[r].features)
        /\ \A r \in DOMAIN req :
             (req[r].pc # "setTiles" /\ req'[r].pc = "setTiles") =>
               /\ req[r].pc = "setContent"
               /\ createContentKey(req[r].features) \in DOMAIN cache'
               /\ cache'[createContentKey(req[r].features)].val
                    = JsonFeatures(req[r].features)
               /\ \A k \in DOMAIN cache' : ~TileWritten(k)]_vars

\* while a handler is in the middle of its tile writes, another handler has
\* read one of the tile entries already stored and found its content
IndexReadInMidStore ==
  \E r, s \in DOMAIN req :
    /\ r # s
    /\ req[r].pc = "setTiles"
    /\ req[r].setsPending # {}
    /\ req[r].setsPending # uncachedTilesOf(req[r])
    /\ req[s].pc = "query"
    /\ \E t \in cachedTilesOf(req[s]) :
         /\ t \in uncachedTilesOf(req[r])
         /\ req[s].cachedContentKeys[t] = createContentKey(req[r].features)
         /\ req[s].cachedContents[req[s].cachedContentKeys[t]].hit

\* C37: in the map client, once every fetch of /api/grid has been answered,
\* gridLayerGroup holds no layer while the cache view is shown and, in the
\* grid view, exactly the layer of the grid request issued last.
GridShowsLatestRequestOnly ==
  LET c == req[1]
  IN  (c.pc = "client" /\ c.pending = {} /\ c.arrived = 1..c.issued) =>
        IF c.isShowingCache THEN c.gridLayerGroup = <<>>
        ELSE c.gridLayerGroup = <<c.latestGrid>>

\* C38: a bounds or zoom parameter that is sent as a well-formed number is
\* used by the handler with that number, 0 included; the fallback takes its
\* place only for a parameter that is missing or malformed.
SuppliedNumbersAreUsed ==
  \A f \in Frames :
    f.pc # "idle" =>
      \A p \in ParamsOf(f) : p.raw \in Nat => p.used = p.raw

====
